---- MODULE Spec2Model ----
(***************************************************************************)
(* A model of linex: the webhook endpoint, process(), Client.emit, the     *)
(* handler registry, wait_for and RepliableContext.reply.                   *)
(*                                                                          *)
(* The program is single-threaded and cooperative (asyncio).  `turn` is    *)
(* the task that holds the event loop: a task keeps it between two of its  *)
(* suspension points and no other task takes a step meanwhile.             *)
(***************************************************************************)
EXTENDS Integers, Sequences, FiniteSets, TLC

\* ---------------------------------------------------------------- bounds
MaxEvents == 3      \* events per payload, and events delivered in total
MaxHandlers == 3    \* registrations in one behaviour

\* The webhook deliveries of one behaviour, numbered in arrival order; they
\* are in flight together when a handler of the first is suspended.
Reqs == {1, 2}

\* The wait_for calls of one behaviour; the number is the call's uuid.
Waiters == {1, 2}

\* ------------------------------------------------------- program constants
\* Client.handlers: the channels that exist from class definition on.
PredefinedNames ==
    {"ready", "text", "image", "audio", "file", "location", "sticker", "video",
     "unsend", "follow", "unfollow", "join", "leave", "member_join",
     "member_leave", "postback", "video_complete", "beacon", "account_link",
     "device_link", "device_unlink", "scenario_result"}

\* process: the keys of `finder`, the message.type values it knows.
finder == {"text", "image", "video", "audio", "file", "location", "sticker"}

\* process: the keys of the things.type table and their channels.
thingsTable ==
    [link |-> "device_link", unlink |-> "device_unlink",
     scenarioResult |-> "scenario_result"]

\* process: the elif chain on event['type'] (other than message and things),
\* with the channel name each branch sets.
typeTable ==
    [unsend |-> "unsend", follow |-> "follow", unfollow |-> "unfollow",
     join |-> "join", leave |-> "leave", memberJoined |-> "member_join",
     memberLeft |-> "member_leave", postback |-> "postback",
     videoPlayComplete |-> "video_complete", beacon |-> "beacon",
     accountLink |-> "account_link"]

\* process: the branches that construct a context without binding it to
\* the local `context` (lines 131, 135, 139).
unassignedTypes == {"videoPlayComplete", "beacon", "accountLink"}

\* ------------------------------------------------------------------ values
\* A context is named by the delivery and the position of the event it was
\* decoded from.  NoneCtx is Python's None.
NoneCtx == [r |-> 0, i |-> 0]
Ctx(r, i) == [r |-> r, i |-> i]

\* An event envelope, reduced to the fields process() and the context
\* constructors read: type, the nested message.type / things.type (sub),
\* mode, whether the fields the constructor indexes are all present
\* (required), the message text (of a postback event: its data) and the
\* message id.
Event(type, sub, mode, required, text, id) ==
    [type |-> type, sub |-> sub, mode |-> mode, required |-> required,
     text |-> text, id |-> id]

TextEvent(t) == Event("message", "text", "active", TRUE, t, "m1")
PostbackEvent == Event("postback", "", "active", TRUE, "", "")
VideoCompleteEvent == Event("videoPlayComplete", "", "active", TRUE, "", "")
UnknownTypeEvent == Event("bogus", "", "active", TRUE, "", "")
UnknownMessageEvent == Event("message", "gif", "active", TRUE, "", "m1")
MalformedEvent == Event("message", "text", "active", FALSE, "a", "m1")
OtherTextEvent == Event("message", "text", "active", TRUE, "a", "m2")
\* Events of a channel in standby mode: another bot is the active one.
StandbyTextEvent == Event("message", "text", "standby", TRUE, "b", "m2")
StandbyPostbackEvent == Event("postback", "", "standby", TRUE, "", "")
StandbyMalformedEvent == Event("message", "text", "standby", FALSE, "b", "m1")

\* The events the deliveries of Spec are made of.
EventAlphabet == {TextEvent("a"), PostbackEvent, UnknownTypeEvent}

RECURSIVE SeqsUpTo(_, _)
SeqsUpTo(S, n) ==
    IF n = 0 THEN {<<>>}
    ELSE LET shorter == SeqsUpTo(S, n - 1)
         IN  shorter \cup {Append(s, e) : s \in {x \in shorter : Len(x) = n - 1}, e \in S}

\* The X-Line-Signature header, symbolically: the base64 HMAC-SHA256 of a
\* body under a key, or "" when the header is missing.  Two signatures are
\* equal exactly when key and body are.
ChannelSecret == "secret"
Keys == {ChannelSecret, "other"}
MissingSignature == [key |-> "", body |-> <<>>, present |-> FALSE]
Signature(key, body) == [key |-> key, body |-> body, present |-> TRUE]

\* ------------------------------------------------------------------- state
VARIABLES
    handlers,        \* Client.handlers: channel name -> list of registrations
    nreg,            \* registrations made so far (the next one is nreg + 1)
    pending,         \* Client.pending: channel name -> (request id -> slot)
    MESSAGES,        \* cache.MESSAGES: message id -> context
    ignore_standby,  \* Client.ignore_standby
    req,             \* per webhook delivery: the coroutine webhook()/process()/emit()
    trace,           \* per delivery: what process() and emit() did, in order
    turn,            \* the task that holds the event loop
    waiter,          \* per wait_for call: the coroutine Client.wait_for
    now,             \* time.time(), in seconds
    rctx,            \* per RepliableContext: timestamp, reply_token, replied
    call,            \* per reply() call: the coroutine RepliableContext.reply
    outbox,          \* the requests sent to the reply endpoint, in order
    status,          \* RateLimit.status, per object that holds one
    api,             \* per call of a function of http.py: the coroutine
    wire,            \* the requests the functions of http.py sent, in order
    USERS,           \* cache.USERS: user id -> User or BotUser
    GROUPS,          \* cache.GROUPS: group id -> Group
    memo,            \* per context: _author and _group
    lazy,            \* per author() / group() call: the coroutine
    lookup,          \* the last call of get_user, get_group, get_message, clear_cache
    commands,        \* Client._commands
    routers,         \* registration number -> the on_text / on_postback closure
    attempts,        \* the command() / postback() registrations and their errors
    invoked,         \* the calls of user functions by the routers, in order
    built,           \* the context a constructor was asked for, and its error
    got,             \* the last property read off it
    via              \* the Client instance each registration, delivery and wait_for goes through

coreVars == <<handlers, nreg, pending, MESSAGES, ignore_standby, req, trace, turn>>
replyVars == <<now, rctx, call, outbox>>
\* What the webhook, process() and emit() never touch.
rateVars == <<status, api, wire>>
cacheVars == <<USERS, GROUPS, memo, lazy, lookup>>
routerVars == <<commands, routers, attempts, invoked>>
fixtureVars == <<built, got>>
otherVars == <<waiter, replyVars, rateVars, cacheVars, routerVars, fixtureVars, via>>
\* What neither they nor wait_for touch.
beyondWait == <<replyVars, rateVars, cacheVars, routerVars, fixtureVars, via>>
\* What reply() never touches.
beyondReply == <<coreVars, waiter, rateVars, cacheVars, routerVars, fixtureVars, via>>
\* What the functions of http.py and RateLimit.call never touch.
beyondRate == <<coreVars, waiter, rctx, call, outbox, cacheVars, routerVars, fixtureVars, via>>
\* What the cache, author() and group() never touch.
beyondCache == <<waiter, replyVars, rateVars, routerVars, fixtureVars, via>>
\* What the context constructors and properties never touch.
beyondFixture == <<coreVars, waiter, replyVars, rateVars, cacheVars, routerVars, via>>
vars == <<coreVars, waiter, replyVars, rateVars, cacheVars, routerVars, fixtureVars, via>>

NoTurn == <<"none", 0>>
ReqTurn(r) == <<"req", r>>
CanRun(t) == turn = NoTurn \/ turn = t

\* A delivery that has not arrived yet.
IdleReq ==
    [pc |-> "idle", header |-> MissingSignature, payload |-> <<>>, idx |-> 1,
     name |-> "", context |-> <<>>, hidx |-> 1, response |-> 0, exc |-> "",
     hints |-> 0]

Op(op, i, h, c) == [op |-> op, ev |-> i, h |-> h, ctx |-> c]

\* Events delivered so far, over all deliveries.
RECURSIVE Delivered(_)
Delivered(S) ==
    IF S = {} THEN 0
    ELSE LET r == CHOOSE x \in S : TRUE
         IN  Len(req[r].payload) + Delivered(S \ {r})

\* ------------------------------------------------------------ the webhook
\* A digest taken after the body stream was consumed: of the empty body.
signature_of_nothing(body) == Signature(ChannelSecret, <<>>)

\* webhook: valid_signature = base64(HMAC-SHA256(channel secret, body)).
valid_signature(body) == Signature(ChannelSecret, body)

\* A comparison that is skipped when the request carries no header.
compare_if_present(a, b) == a.present => a = b

\* webhook: hmac.compare_digest(line_signature, valid_signature).
compare_digest(a, b) == a = b

\* handle_them_all: the app's exception handler logs and returns None, so
\* no response object exists and the server answers 500.
handle_them_all == 500

\* An exception leaves process() and webhook(): the delivery ends in
\* handle_them_all.
Abort(r, exc) ==
    /\ req' = [req EXCEPT ![r].pc = "done", ![r].exc = exc,
                          ![r].response = handle_them_all]
    /\ turn' = NoTurn

\* webhook, lines 134-170: the body has arrived, the signature is compared,
\* and a valid delivery goes on into process() without suspending (the
\* body is in memory when request.json() is awaited).
Post(r, p, h) ==
    /\ req[r].pc = "idle"
    /\ \A o \in Reqs : o < r => req[o].pc # "idle"
    /\ turn = NoTurn
    /\ Len(p) + Delivered(Reqs) <= MaxEvents
    /\ IF ~compare_digest(h, valid_signature(p))
       THEN /\ req' = [req EXCEPT ![r].pc = "done", ![r].header = h,
                                  ![r].payload = p, ![r].response = 400]
            /\ turn' = NoTurn
       ELSE /\ req' = [req EXCEPT ![r].pc = "process", ![r].header = h,
                                  ![r].payload = p]
            /\ turn' = ReqTurn(r)
    /\ UNCHANGED <<handlers, nreg, pending, MESSAGES, ignore_standby, trace>>
    /\ UNCHANGED otherVars

\* A process() without the branch for an empty events array: the for loop
\* runs over nothing.
ProcessEmptySilent(r) ==
    /\ req[r].pc = "process"
    /\ CanRun(ReqTurn(r))
    /\ req[r].payload = <<>>
    /\ req' = [req EXCEPT ![r].pc = "done", ![r].response = 200]
    /\ turn' = NoTurn
    /\ UNCHANGED <<handlers, nreg, pending, MESSAGES, ignore_standby, trace>>
    /\ UNCHANGED otherVars

\* process, lines 60-71: an empty events array is the verification ping.
ProcessEmpty(r) ==
    /\ req[r].pc = "process"
    /\ CanRun(ReqTurn(r))
    /\ req[r].payload = <<>>
    /\ req' = [req EXCEPT ![r].pc = "done", ![r].hints = @ + 1,
                          ![r].response = 200]
    /\ turn' = NoTurn
    /\ UNCHANGED <<handlers, nreg, pending, MESSAGES, ignore_standby, trace>>
    /\ UNCHANGED otherVars

\* process, lines 83-159: what the if/elif chain does with one event.
\*   exc      the exception it raises ("" for none)
\*   name     the channel name it sets
\*   assigns  whether the constructed context is bound to `context`
\*   cached   whether add_to_cache is called
Decode(ev) ==
    IF ev.type = "message"
    THEN IF ev.sub \notin finder \/ ~ev.required
         THEN [exc |-> "KeyError", name |-> "", assigns |-> FALSE, cached |-> FALSE]
         ELSE [exc |-> "", name |-> ev.sub, assigns |-> TRUE, cached |-> TRUE]
    ELSE IF ev.type \in DOMAIN typeTable
    THEN IF ~ev.required
         THEN [exc |-> "KeyError", name |-> typeTable[ev.type], assigns |-> FALSE,
               cached |-> FALSE]
         ELSE [exc |-> "", name |-> typeTable[ev.type],
               assigns |-> ev.type \notin unassignedTypes, cached |-> FALSE]
    ELSE IF ev.type = "things"
    THEN IF ev.sub \notin DOMAIN thingsTable \/ ~ev.required
         THEN [exc |-> "KeyError", name |-> "", assigns |-> FALSE, cached |-> FALSE]
         ELSE [exc |-> "", name |-> thingsTable[ev.sub], assigns |-> TRUE,
               cached |-> FALSE]
    ELSE [exc |-> "TypeError", name |-> "", assigns |-> FALSE, cached |-> FALSE]

\* A loop that skips no event.
skip_never(ev, ignore) == FALSE

\* process, lines 80-81: the test that sends the for loop to its next turn.
skip_standby(ev, ignore) == ev.mode = "standby" /\ ignore

\* An insertion that keeps the entry an id already has.
add_if_absent(cache, id, c) ==
    [k \in DOMAIN cache \cup {id} |-> IF k \in DOMAIN cache THEN cache[k] ELSE c]

\* add_to_cache: MESSAGES[context.id] = context.
add_to_cache(cache, id, c) ==
    [k \in DOMAIN cache \cup {id} |-> IF k = id THEN c ELSE cache[k]]

\* fulfill_pendings: every slot of the channel is overwritten.
fulfill_pendings(pend, name, c) ==
    [pend EXCEPT ![name] = [item \in DOMAIN @ |-> c]]

\* process, lines 79-161: one turn of the for loop, up to the call of emit.
ProcessEvent(r) ==
    LET q == req[r]
        ev == q.payload[q.idx]
        d == Decode(ev)
        c == Ctx(r, q.idx)
        context == IF d.assigns THEN <<c>> ELSE q.context
    IN
    /\ q.pc = "process"
    /\ CanRun(ReqTurn(r))
    /\ q.payload # <<>>
    /\ q.idx <= Len(q.payload)
    /\ IF skip_standby(ev, ignore_standby)
       THEN /\ req' = [req EXCEPT ![r].idx = @ + 1]
            /\ turn' = ReqTurn(r)
            /\ UNCHANGED <<pending, MESSAGES, trace>>
       ELSE IF d.exc # ""
       THEN /\ Abort(r, d.exc)
            /\ UNCHANGED <<pending, MESSAGES, trace>>
       ELSE IF context = <<>>
       THEN \* `context` is read before any branch bound it
            /\ req' = [req EXCEPT ![r].pc = "done", ![r].exc = "UnboundLocalError",
                                  ![r].name = d.name,
                                  ![r].response = handle_them_all]
            /\ turn' = NoTurn
            /\ trace' = [trace EXCEPT ![r] = Append(@, Op("decode", q.idx, 0, c))]
            /\ UNCHANGED <<pending, MESSAGES>>
       ELSE /\ req' = [req EXCEPT ![r].pc = "emit", ![r].name = d.name,
                                  ![r].context = context, ![r].hidx = 1]
            /\ turn' = ReqTurn(r)
            /\ MESSAGES' = IF d.cached THEN add_to_cache(MESSAGES, ev.id, c)
                           ELSE MESSAGES
            /\ pending' = fulfill_pendings(pending, d.name, context[1])
            /\ trace' = [trace EXCEPT ![r] =
                            @ \o <<Op("decode", q.idx, 0, c),
                                   Op("fulfill", q.idx, 0, context[1])>>]
    /\ UNCHANGED <<handlers, nreg, ignore_standby>>
    /\ UNCHANGED otherVars

\* process returns after the last event; webhook answers 200.
ProcessReturn(r) ==
    /\ req[r].pc = "process"
    /\ CanRun(ReqTurn(r))
    /\ req[r].payload # <<>>
    /\ req[r].idx > Len(req[r].payload)
    /\ req' = [req EXCEPT ![r].pc = "done", ![r].response = 200]
    /\ turn' = NoTurn
    /\ UNCHANGED <<handlers, nreg, pending, MESSAGES, ignore_standby, trace>>
    /\ UNCHANGED otherVars

\* The Client instances of one process, and the instance each registration
\* (by number), each delivery (the app it is posted to) and each wait_for
\* call goes through.
Clients == {1, 2}
Vias ==
    [reg : [1..MaxHandlers -> Clients], req : [Reqs -> Clients],
     wait : [Waiters -> Clients]]
OneClient ==
    [reg |-> [h \in 1..MaxHandlers |-> 1], req |-> [r \in Reqs |-> 1],
     wait |-> [w \in Waiters |-> 1]]

\* A registry of the instance's own: the handlers registered through it.
own_handlers(self, hs) ==
    [n \in DOMAIN hs |-> SelectSeq(hs[n], LAMBDA h : via.reg[h] = self)]

\* self.handlers: Client.__init__ assigns no `handlers` and __slots__ has
\* none, so the lookup on any instance finds the dict of the class.
self_handlers(self, hs) == hs

\* The registry emit() reads when delivery r is dispatched.
Registry(r) == self_handlers(via.req[r], handlers)

\* A dispatch that starts the handlers without awaiting them.
EmitNextNoAwait(r) ==
    LET q == req[r] IN
    /\ q.pc = "emit"
    /\ CanRun(ReqTurn(r))
    /\ IF q.hidx <= Len(Registry(r)[q.name])
       THEN /\ req' = [req EXCEPT ![r].hidx = @ + 1]
            /\ trace' = [trace EXCEPT ![r] =
                  Append(@, Op("start", q.idx, Registry(r)[q.name][q.hidx], q.context[1]))]
       ELSE /\ req' = [req EXCEPT ![r].pc = "process", ![r].idx = @ + 1]
            /\ UNCHANGED trace
    /\ turn' = ReqTurn(r)
    /\ UNCHANGED <<handlers, nreg, pending, MESSAGES, ignore_standby>>
    /\ UNCHANGED otherVars

\* emit, lines 255-259: the for loop takes the next handler of the live
\* list and awaits it (the handler runs up to its first suspension point,
\* where the event loop is free), or ends and process() goes to the next event.
EmitNext(r) ==
    LET q == req[r] IN
    /\ q.pc = "emit"
    /\ CanRun(ReqTurn(r))
    /\ IF q.hidx <= Len(Registry(r)[q.name])
       THEN /\ req' = [req EXCEPT ![r].pc = "handler"]
            /\ trace' = [trace EXCEPT ![r] =
                  Append(@, Op("start", q.idx, Registry(r)[q.name][q.hidx], q.context[1]))]
            /\ turn' = NoTurn
       ELSE /\ req' = [req EXCEPT ![r].pc = "process", ![r].idx = @ + 1]
            /\ turn' = ReqTurn(r)
            /\ UNCHANGED trace
    /\ UNCHANGED <<handlers, nreg, pending, MESSAGES, ignore_standby>>
    /\ UNCHANGED otherVars

\* emit, line 259: the awaited handler returns.  The closures of command()
\* and postback() are run by RouterRun.
HandlerReturn(r) ==
    LET q == req[r] IN
    /\ q.pc = "handler"
    /\ CanRun(ReqTurn(r))
    /\ Registry(r)[q.name][q.hidx] \notin DOMAIN routers
    /\ req' = [req EXCEPT ![r].pc = "emit", ![r].hidx = @ + 1]
    /\ trace' = [trace EXCEPT ![r] =
          Append(@, Op("end", q.idx, Registry(r)[q.name][q.hidx], q.context[1]))]
    /\ turn' = ReqTurn(r)
    /\ UNCHANGED <<handlers, nreg, pending, MESSAGES, ignore_standby>>
    /\ UNCHANGED otherVars

\* emit, line 259: the awaited handler raises; nothing in emit, process or
\* webhook catches it.
HandlerRaise(r) ==
    /\ req[r].pc = "handler"
    /\ CanRun(ReqTurn(r))
    /\ Abort(r, "HandlerError")
    /\ UNCHANGED <<handlers, nreg, pending, MESSAGES, ignore_standby, trace>>
    /\ UNCHANGED otherVars

\* The channels the registrations of the model go to.
ListenNames == {"text", "postback"}

\* A registration that puts the handler at the head of the list.
listenFirst(hs, name, handler) ==
    IF name \in DOMAIN hs
    THEN [hs EXCEPT ![name] = <<handler>> \o @]
    ELSE [k \in DOMAIN hs \cup {name} |-> IF k = name THEN <<handler>> ELSE hs[k]]

\* A registry with one handler per channel: a registration replaces the list.
listenOnly(hs, name, handler) ==
    [k \in DOMAIN hs \cup {name} |-> IF k = name THEN <<handler>> ELSE hs[k]]

\* Client.listen(name)(handler) and Client.event(handler): append to the
\* channel's list.  Registrations are numbered in the order they are made.
listen(hs, name, handler) ==
    IF name \in DOMAIN hs
    THEN [hs EXCEPT ![name] = Append(@, handler)]
    ELSE [k \in DOMAIN hs \cup {name} |-> IF k = name THEN <<handler>> ELSE hs[k]]

Listen(name) ==
    /\ nreg < MaxHandlers
    /\ turn = NoTurn
    /\ handlers' = listen(handlers, name, nreg + 1)
    /\ nreg' = nreg + 1
    /\ UNCHANGED <<pending, MESSAGES, ignore_standby, req, trace, turn>>
    /\ UNCHANGED otherVars

\* ---------------------------------------------------------------- wait_for
WaitTurn(w) == <<"wait", w>>

\* A wait_for call that has not been made yet.
IdleWaiter ==
    [pc |-> "idle", name |-> "", check |-> "", timeout |-> 0, result |-> NoneCtx,
     elapsed |-> 0, before |-> {}, turns |-> 0]

\* The event a context was decoded from.
EventOf(c) == req[c.r].payload[c.i]

\* The `check` arguments of the model: the default (lambda _: True) and
\* a predicate on the context's text.
Checks == {"any", "textA"}
Check(k, c) == k = "any" \/ EventOf(c).text = "a"

\* The `timeout` arguments of the model, in sleeps of 0.01 s: none, or
\* TimeoutTicks sleeps.
TimeoutTicks == 2
Timeouts == {0, TimeoutTicks}

\* The contexts written into pending slots so far, by any delivery.
DispatchedCtxs ==
    UNION {{trace[r][k].ctx : k \in {x \in 1..Len(trace[r]) : trace[r][x].op = "fulfill"}} :
             r \in Reqs}

\* wait_for, lines 392-411: the call registers its slot, finds it None in
\* the first turn of the loop and goes to sleep.  self.pending[name] at line
\* 393 raises KeyError for a name pending has no map for.
WaitRegister(w, name, check, timeout) ==
    /\ waiter[w].pc = "idle"
    /\ turn = NoTurn
    /\ IF name \notin DOMAIN pending
       THEN /\ waiter' = [waiter EXCEPT ![w] =
                             [IdleWaiter EXCEPT !.pc = "KeyError", !.name = name,
                                                !.check = check, !.timeout = timeout]]
            /\ UNCHANGED pending
       ELSE /\ pending' = [pending EXCEPT ![name] =
                              [k \in DOMAIN @ \cup {w} |-> IF k = w THEN NoneCtx ELSE @[k]]]
            /\ waiter' = [waiter EXCEPT ![w] =
                              [pc |-> "sleep", name |-> name, check |-> check,
                               timeout |-> timeout, result |-> NoneCtx, elapsed |-> 0,
                               before |-> DispatchedCtxs, turns |-> 0]]
    /\ UNCHANGED <<handlers, nreg, MESSAGES, ignore_standby, req, trace, turn>>
    /\ UNCHANGED beyondWait

\* wait_for, lines 412-420 and 398-411: the sleep ends; the call raises
\* Timeout, or returns the result it found before the sleep, or reads its
\* slot again.  A slot value that check rejects sends the loop back to its
\* head without a sleep (`continue`): the call then holds the event loop.
\* `elapsed` is kept only when a timeout was given.
WaitWake(w) ==
    LET q == waiter[w]
        elapsed == IF q.timeout = 0 THEN 0 ELSE q.elapsed + 1
        slot == pending[q.name][w]
    IN
    /\ q.pc = "sleep"
    /\ turn = NoTurn
    /\ IF q.timeout # 0 /\ elapsed >= q.timeout
       THEN /\ waiter' = [waiter EXCEPT ![w].pc = "timeout", ![w].elapsed = elapsed]
            /\ UNCHANGED <<pending, turn>>
       ELSE IF q.result # NoneCtx
       THEN /\ waiter' = [waiter EXCEPT ![w].pc = "returned", ![w].elapsed = elapsed]
            /\ pending' = [pending EXCEPT ![q.name] =
                              [k \in DOMAIN @ \ {w} |-> @[k]]]
            /\ UNCHANGED turn
       ELSE IF slot = NoneCtx
       THEN /\ waiter' = [waiter EXCEPT ![w].elapsed = elapsed]
            /\ UNCHANGED <<pending, turn>>
       ELSE IF ~Check(q.check, slot)
       THEN /\ waiter' = [waiter EXCEPT ![w].pc = "spin", ![w].elapsed = elapsed]
            /\ turn' = WaitTurn(w)
            /\ UNCHANGED pending
       ELSE /\ waiter' = [waiter EXCEPT ![w].result = slot, ![w].elapsed = elapsed]
            /\ UNCHANGED <<pending, turn>>
    /\ UNCHANGED <<handlers, nreg, MESSAGES, ignore_standby, req, trace>>
    /\ UNCHANGED beyondWait

\* wait_for, lines 398-407, after check rejected the slot's value: the loop
\* reads the same slot, check rejects it again and `continue` skips the sleep
\* once more.  No other task has run, so nothing else has changed; `turns`
\* is the parity of the turns of the loop taken this way.
WaitSpin(w) ==
    LET q == waiter[w]
    IN
    /\ q.pc = "spin"
    /\ turn = WaitTurn(w)
    /\ pending[q.name][w] # NoneCtx
    /\ ~Check(q.check, pending[q.name][w])
    /\ waiter' = [waiter EXCEPT ![w].turns = 1 - @]
    /\ UNCHANGED <<handlers, nreg, pending, MESSAGES, ignore_standby, req, trace, turn>>
    /\ UNCHANGED beyondWait

\* ------------------------------------------------------------------- reply
\* The reply window of lines 197 and 245, 60 * 20 seconds.
ReplyWindow == 1200

\* The RepliableContext objects and the reply() calls of one behaviour; calls
\* are numbered in the order they are made.
MaxReplyCalls == 3
RCtxs == {1, 2}
ReplyCalls == 1..MaxReplyCalls

\* The values of time.time() and of an event's timestamp the model draws
\* from, in seconds: 19, 20 and 21 minutes.
Instants == {0, 19 * 60, ReplyWindow, 21 * 60}
Timestamps == {0}

\* The `messages` arguments of the model: a str, a dict, a message model
\* with to_json(), and an object without it; a call passes all three
\* convertible kinds or the one that is not.
StrMessage == [kind |-> "str", body |-> "hi"]
DictMessage == [kind |-> "dict", body |-> "raw"]
ModelMessage == [kind |-> "model", body |-> "sticker"]
OtherMessage == [kind |-> "other", body |-> "42"]
ReplyArgs == {<<StrMessage, DictMessage, ModelMessage>>, <<OtherMessage>>}

\* A context as BaseContext.__init__ leaves it: replied is the class
\* attribute False until reply() sets it on the object.
NewContext(timestamp, reply_token) ==
    [timestamp |-> timestamp, reply_token |-> reply_token, replied |-> FALSE]

\* A reply() call that has not been made yet.  `at` is the time of the call,
\* `was` and `after` the context's replied flag before and after it.
IdleCall ==
    [pc |-> "idle", c |-> 0, messages |-> <<>>, at |-> 0, exc |-> "",
     was |-> FALSE, after |-> FALSE]

\* No context has been replied to and no reply() call was made.
NoReply ==
    /\ now = 0
    /\ rctx = [c \in RCtxs |-> NewContext(0, FALSE)]
    /\ call = [k \in ReplyCalls |-> IdleCall]
    /\ outbox = <<>>

\* _to_valid_message_objects, lines 197-220, at time t: the window is tested
\* again, then a str becomes a text message, a dict stays, anything else is
\* asked for to_json().
to_valid_message_objects(o, t, messages) ==
    IF t - o.timestamp > ReplyWindow
    THEN [exc |-> "CannotReply", collected |-> <<>>]
    ELSE IF \E i \in 1..Len(messages) : messages[i].kind = "other"
    THEN [exc |-> "AttributeError", collected |-> <<>>]
    ELSE [exc |-> "",
          collected |->
              [i \in 1..Len(messages) |->
                  IF messages[i].kind = "str"
                  THEN [type |-> "text", body |-> messages[i].body]
                  ELSE [type |-> messages[i].body, body |-> ""]]]

\* Line 268, self.replied = True; the variant forgets the assignment.
keep_flag(o) == o
mark_replied(o) == [o EXCEPT !.replied = TRUE]

\* A reply() that sets the flag on entry, before its tests.
ReplyCallFlagFirst(k, c, messages) ==
    LET o == rctx[c]
        valid_messages == to_valid_message_objects(o, now, messages)
        exc == IF ~o.reply_token THEN "TypeError"
               ELSE IF now - o.timestamp > ReplyWindow THEN "CannotReply"
               ELSE IF o.replied THEN "CannotReply"
               ELSE valid_messages.exc
        entry == [pc |-> "idle", c |-> c, messages |-> messages, at |-> now,
                  exc |-> exc, was |-> o.replied, after |-> TRUE]
    IN
    /\ call[k].pc = "idle"
    /\ \A j \in ReplyCalls : j < k => call[j].pc # "idle"
    /\ rctx' = [rctx EXCEPT ![c] = mark_replied(o)]
    /\ IF exc # ""
       THEN /\ call' = [call EXCEPT ![k] = [entry EXCEPT !.pc = "raised"]]
            /\ UNCHANGED outbox
       ELSE /\ outbox' = Append(outbox, [k |-> k, c |-> c,
                                         messages |-> valid_messages.collected])
            /\ call' = [call EXCEPT ![k] = [entry EXCEPT !.pc = "sending"]]
    /\ UNCHANGED now
    /\ UNCHANGED beyondReply

\* reply, lines 242-269, up to the await: the token, the window and the flag
\* are tested in this order, the messages are converted, the flag is set and
\* the request is handed to the HTTP client.  The code between the tests
\* and the await has no suspension point, and the model reads the clock
\* once for both window tests.
ReplyCall(k, c, messages) ==
    LET o == rctx[c]
        valid_messages == to_valid_message_objects(o, now, messages)
        exc == IF ~o.reply_token THEN "TypeError"
               ELSE IF now - o.timestamp > ReplyWindow THEN "CannotReply"
               ELSE IF o.replied THEN "CannotReply"
               ELSE valid_messages.exc
        entry == [pc |-> "idle", c |-> c, messages |-> messages, at |-> now,
                  exc |-> exc, was |-> o.replied, after |-> o.replied]
    IN
    /\ call[k].pc = "idle"
    /\ \A j \in ReplyCalls : j < k => call[j].pc # "idle"
    /\ IF exc # ""
       THEN /\ call' = [call EXCEPT ![k] = [entry EXCEPT !.pc = "raised"]]
            /\ UNCHANGED <<rctx, outbox>>
       ELSE /\ rctx' = [rctx EXCEPT ![c] = mark_replied(o)]
            /\ outbox' = Append(outbox, [k |-> k, c |-> c,
                                         messages |-> valid_messages.collected])
            /\ call' = [call EXCEPT ![k] =
                           [entry EXCEPT !.pc = "sending",
                                         !.after = mark_replied(o).replied]]
    /\ UNCHANGED now
    /\ UNCHANGED beyondReply

\* reply, line 269: the awaited request comes back and reply() returns.
ReplyDone(k) ==
    /\ call[k].pc = "sending"
    /\ call' = [call EXCEPT ![k].pc = "returned"]
    /\ UNCHANGED <<now, rctx, outbox>>
    /\ UNCHANGED beyondReply

\* Time passes between two steps of the program.
Tick(t) ==
    /\ t > now
    /\ now' = t
    /\ UNCHANGED <<rctx, call, outbox>>
    /\ UNCHANGED beyondReply

\* ----------------------------------------------------------- rate limiting
\* The buckets of the model, two of the module-level buckets of http.py,
\* with their limits scaled down: RateLimit.other() is 2,000 calls per
\* second, RateLimit.webhook_endpoint() 1,000 per minute.
Buckets == {"rr_getUser", "rr_setWebhookEndpoint"}
calls(b) == IF b = "rr_getUser" THEN 1 ELSE 2
per(b) == IF b = "rr_getUser" THEN 2 ELSE 3

\* The 0.1 s of lines 62-63 on a clock of whole seconds: a sleep of
\* per + 0.1 ends at the first instant later than now + per.
SleepSlack == 1

\* The functions of http.py in the model and the bucket each one awaits
\* first; reply and get_file await none.
NoBucket == "none"
rr ==
    [get_user |-> "rr_getUser",
     set_webhook_endpoint |-> "rr_setWebhookEndpoint",
     reply |-> NoBucket,
     get_file |-> NoBucket]
HttpFunctions == DOMAIN rr

\* self.status: `status` is an attribute of the class, __slots__ holds
\* only calls and per, and call() mutates the dict in place, so every
\* bucket reads and writes the one dict of the class.
StatusOwner(b) == "RateLimit"
StatusOwners == {StatusOwner(b) : b \in Buckets}
NewStatus == [first_call |-> 0, calls |-> 0, wait_end |-> 0]

\* The calls of functions of http.py in one behaviour, numbered in the
\* order they are made, and the latest time of the model's clock.
MaxApiCalls == 3
MaxClock == 5
ApiCalls == 1..MaxApiCalls

\* A call that has not been made yet.  `start` is the time of the call,
\* `wake` the end of its current sleep, `slept` whether call() suspended,
\* `at` the time its request was sent, `gate` whether a call() completed
\* for it, `behind` the bucket whose wait it found pending.
IdleApi ==
    [pc |-> "idle", fn |-> "", start |-> 0, wake |-> 0, slept |-> FALSE,
     at |-> 0, gate |-> FALSE, behind |-> NoBucket]

\* No function of http.py was called.
NoRate ==
    /\ status = [o \in StatusOwners |-> NewStatus]
    /\ api = [k \in ApiCalls |-> IdleApi]
    /\ wire = <<>>

\* The bucket whose caller is asleep at line 63, if any.
Sleeper ==
    IF \E j \in ApiCalls : api[j].pc = "sleep"
    THEN rr[api[CHOOSE j \in ApiCalls : api[j].pc = "sleep"].fn]
    ELSE NoBucket

\* The request of call k goes out (client.get / client.post / client.put).
Send(k, q) ==
    /\ wire' = Append(wire, [k |-> k, fn |-> q.fn, at |-> now, gate |-> q.gate])
    /\ api' = [api EXCEPT ![k] = [q EXCEPT !.pc = "sent", !.at = now]]

\* A call() without the test of wait_end at lines 47-49.
RateLimit_call_nowait(k, q) ==
    LET b == rr[q.fn]
        o == StatusOwner(b)
        st == status[o]
        deadline == now + per(b) + SleepSlack
    IN
    IF st.first_call = 0
    THEN /\ status' = [status EXCEPT ![o] =
                          [@ EXCEPT !.first_call = now, !.calls = @ + 1]]
         /\ Send(k, [q EXCEPT !.gate = TRUE])
    ELSE IF st.calls + 1 > calls(b) /\ now - st.first_call < per(b)
    THEN /\ status' = [status EXCEPT ![o] =
                          [@ EXCEPT !.calls = @ + 1, !.wait_end = deadline]]
         /\ api' = [api EXCEPT ![k] =
                       [q EXCEPT !.pc = "sleep", !.wake = deadline, !.slept = TRUE]]
         /\ UNCHANGED wire
    ELSE /\ status' = [status EXCEPT ![o] = [@ EXCEPT !.calls = @ + 1]]
         /\ Send(k, [q EXCEPT !.gate = TRUE])

\* RateLimit.call, lines 45-66, run for call k at time `now` up to its
\* return or its next await.  A pending wait_end sends the caller to the
\* sleep of line 48, whose delay now - wait_end is negative until the
\* deadline has passed (asyncio.sleep then only yields).  call() returns
\* into the function of http.py, which sends its request.
RateLimit_call(k, q) ==
    LET b == rr[q.fn]
        o == StatusOwner(b)
        st == status[o]
        delay == IF now - st.wait_end > 0 THEN now - st.wait_end ELSE 0
        deadline == now + per(b) + SleepSlack
    IN
    IF st.wait_end # 0
    THEN /\ api' = [api EXCEPT ![k] =
                       [q EXCEPT !.pc = "retry", !.wake = now + delay,
                                 !.slept = TRUE, !.behind = Sleeper]]
         /\ UNCHANGED <<status, wire>>
    ELSE IF st.first_call = 0
    THEN /\ status' = [status EXCEPT ![o] =
                          [@ EXCEPT !.first_call = now, !.calls = @ + 1]]
         /\ Send(k, [q EXCEPT !.gate = TRUE])
    ELSE IF st.calls + 1 > calls(b) /\ now - st.first_call < per(b)
    THEN /\ status' = [status EXCEPT ![o] =
                          [@ EXCEPT !.calls = @ + 1, !.wait_end = deadline]]
         /\ api' = [api EXCEPT ![k] =
                       [q EXCEPT !.pc = "sleep", !.wake = deadline, !.slept = TRUE]]
         /\ UNCHANGED wire
    ELSE /\ status' = [status EXCEPT ![o] = [@ EXCEPT !.calls = @ + 1]]
         /\ Send(k, [q EXCEPT !.gate = TRUE])

\* A function of http.py is called: it awaits its bucket's call(), if it
\* has a bucket, and sends its request.
ApiCall(k, fn) ==
    LET q == [IdleApi EXCEPT !.fn = fn, !.start = now]
    IN
    /\ api[k].pc = "idle"
    /\ \A j \in ApiCalls : j < k => api[j].pc # "idle"
    /\ IF rr[fn] = NoBucket
       THEN Send(k, q) /\ UNCHANGED status
       ELSE RateLimit_call(k, q)
    /\ UNCHANGED now
    /\ UNCHANGED beyondRate

\* Line 49, return await self.call(): the sleep of line 48 is over and
\* call() starts again.
ApiRetry(k) ==
    /\ api[k].pc = "retry"
    /\ now >= api[k].wake
    /\ RateLimit_call(k, api[k])
    /\ UNCHANGED now
    /\ UNCHANGED beyondRate

\* Line 49 again: each retry nests one more call(), and the sleep of line
\* 48 takes no time while the deadline is ahead, so the nesting may reach
\* the interpreter's recursion limit before the wait is over.
ApiOverflow(k) ==
    /\ api[k].pc = "retry"
    /\ status[StatusOwner(rr[api[k].fn])].wait_end # 0
    /\ api' = [api EXCEPT ![k].pc = "raised"]
    /\ UNCHANGED <<now, status, wire>>
    /\ UNCHANGED beyondRate

\* Lines 63-66: the sleep of per + 0.1 s is over; the bucket is reset and
\* call() returns.
ApiWake(k) ==
    /\ api[k].pc = "sleep"
    /\ now >= api[k].wake
    /\ status' = [status EXCEPT ![StatusOwner(rr[api[k].fn])] = NewStatus]
    /\ Send(k, [api[k] EXCEPT !.gate = TRUE])
    /\ UNCHANGED now
    /\ UNCHANGED beyondRate

\* ------------------------------------------------------------ entity cache
\* cache.USERS, cache.GROUPS and cache.MESSAGES as the module creates them:
\* mappings from id to entity, empty, that drop an entry only when told to.
EmptyMap == <<>>

\* A User or Group object: its id and the lazy call that constructed it
\* (0 for the BotUser that lifespan constructs).  NoneEnt is None.
NoneEnt == [id |-> "", by |-> 0]
Entity(id, f) == [id |-> id, by |-> f]
BotId == "Ubot"
UserIds == {"U1"}
GroupIds == {"G1"}
MessageIds == {"m1", "m2"}

\* The contexts author() and group() are called on: a text message of a
\* one-to-one chat, one of a group chat, and an unsend event of a
\* one-to-one chat.
LCtxs == {"text_user", "text_group", "unsend_user"}
source(c) ==
    IF c = "text_group"
    THEN [type |-> "group", userId |-> "U1", groupId |-> "G1"]
    ELSE [type |-> "user", userId |-> "U1", groupId |-> ""]

\* Whether instances of the context's class have a __dict__: BaseContext
\* and UnsendContext declare __slots__ without '_author' and '_group', so
\* on an UnsendContext these names are the class attributes only and an
\* assignment raises AttributeError; RepliableContext declares no
\* __slots__, so its subclasses' instances can take any attribute.
has_dict(c) == c # "unsend_user"

\* The author() and group() calls of one behaviour, in the order made.
MaxLazyCalls == 2
LazyCalls == 1..MaxLazyCalls
LazyKinds == {"author", "group"}

\* A call that has not been made.  `after`: an earlier call of the same
\* method on the same context had ended, its request answered, when this
\* one was made; `sent`: the requests this call sent.
IdleLazy ==
    [pc |-> "idle", ctx |-> "", kind |-> "", after |-> FALSE, sent |-> 0,
     result |-> NoneEnt, exc |-> ""]
NewMemo == [author |-> NoneEnt, group |-> NoneEnt]
NoLookup == [fn |-> "", id |-> ""]

\* The server has started: lifespan stored the bot's own user, no context
\* has fetched anything and no utility method was called.
NewCache ==
    /\ USERS = [k \in {BotId} |-> Entity(BotId, 0)]
    /\ GROUPS = EmptyMap
    /\ memo = [c \in LCtxs |-> NewMemo]
    /\ lazy = [f \in LazyCalls |-> IdleLazy]
    /\ lookup = NoLookup

\* dict.__setitem__ on a cache map.
Store(map, id, e) == [k \in DOMAIN map \cup {id} |-> IF k = id THEN e ELSE map[k]]

\* author / group: `if not self._author`, `if not self._group`.
not_memoized(m) == m = NoneEnt

\* BaseContext.author and BaseContext.group, up to the first await: group()
\* raises TypeError unless the source is a group; a memoized entity is
\* returned at once; otherwise the call awaits get_user or
\* get_group_chat_summary.
LazyCall(f, c, kind) ==
    /\ lazy[f].pc = "idle"
    /\ \A j \in LazyCalls : j < f => lazy[j].pc # "idle"
    /\ turn = NoTurn
    /\ LET q == [IdleLazy EXCEPT !.ctx = c, !.kind = kind,
                     !.after = \E j \in LazyCalls :
                                  /\ lazy[j].ctx = c /\ lazy[j].kind = kind
                                  /\ lazy[j].pc \in {"returned", "raised"}
                                  /\ lazy[j].sent = 1]
       IN  lazy' = [lazy EXCEPT ![f] =
               IF kind = "group" /\ source(c).type # "group"
               THEN [q EXCEPT !.pc = "raised", !.exc = "TypeError"]
               ELSE IF not_memoized(memo[c][kind])
               THEN [q EXCEPT !.pc = "await"]
               ELSE [q EXCEPT !.pc = "returned", !.result = memo[c][kind]]]
    /\ UNCHANGED <<USERS, GROUPS, memo, lookup>>
    /\ UNCHANGED <<coreVars, beyondCache>>

\* author, lines 143-146, and group, lines 158-166: the awaited function
\* has sent its request and returns the profile; the entity is constructed,
\* assigned to the context and stored in the cache under its id.
LazyAnswer(f) ==
    LET q == lazy[f]
        id == IF q.kind = "author" THEN source(q.ctx).userId ELSE source(q.ctx).groupId
        e == Entity(id, f)
    IN
    /\ q.pc = "await"
    /\ turn = NoTurn
    /\ IF ~has_dict(q.ctx)
       THEN /\ lazy' = [lazy EXCEPT ![f] =
                           [q EXCEPT !.pc = "raised", !.exc = "AttributeError", !.sent = 1]]
            /\ UNCHANGED <<USERS, GROUPS, memo>>
       ELSE /\ lazy' = [lazy EXCEPT ![f] =
                           [q EXCEPT !.pc = "returned", !.result = e, !.sent = 1]]
            /\ memo' = [memo EXCEPT ![q.ctx][q.kind] = e]
            /\ IF q.kind = "author"
               THEN USERS' = Store(USERS, id, e) /\ UNCHANGED GROUPS
               ELSE GROUPS' = Store(GROUPS, id, e) /\ UNCHANGED USERS
    /\ UNCHANGED lookup
    /\ UNCHANGED <<coreVars, beyondCache>>

\* The awaited function raises before it sends anything: its bucket's
\* call() ends in RecursionError (ApiOverflow).
LazyGateRaise(f) ==
    /\ lazy[f].pc = "await"
    /\ turn = NoTurn
    /\ lazy' = [lazy EXCEPT ![f].pc = "raised", ![f].exc = "RecursionError"]
    /\ UNCHANGED <<USERS, GROUPS, memo, lookup>>
    /\ UNCHANGED <<coreVars, beyondCache>>

\* Client.get_user, get_group, get_message: dict.get, and Unknown is
\* raised when the id has no entry.
get_user(id) ==
    IF id \in DOMAIN USERS THEN [exc |-> "", value |-> USERS[id]]
    ELSE [exc |-> "Unknown", value |-> NoneEnt]
get_group(id) ==
    IF id \in DOMAIN GROUPS THEN [exc |-> "", value |-> GROUPS[id]]
    ELSE [exc |-> "Unknown", value |-> NoneEnt]
get_message(id) ==
    IF id \in DOMAIN MESSAGES THEN [exc |-> "", value |-> MESSAGES[id]]
    ELSE [exc |-> "Unknown", value |-> NoneCtx]

\* A call of one of the three getters by the bot's code; `lookup` keeps
\* which call was made last.
GetUser(id) ==
    /\ turn = NoTurn
    /\ lookup' = [fn |-> "get_user", id |-> id]
    /\ UNCHANGED <<USERS, GROUPS, memo, lazy>>
    /\ UNCHANGED <<coreVars, beyondCache>>

GetGroup(id) ==
    /\ turn = NoTurn
    /\ lookup' = [fn |-> "get_group", id |-> id]
    /\ UNCHANGED <<USERS, GROUPS, memo, lazy>>
    /\ UNCHANGED <<coreVars, beyondCache>>

GetMessage(id) ==
    /\ turn = NoTurn
    /\ lookup' = [fn |-> "get_message", id |-> id]
    /\ UNCHANGED <<USERS, GROUPS, memo, lazy>>
    /\ UNCHANGED <<coreVars, beyondCache>>

\* A clear() that removes nothing.
clear_nothing(map) == map

\* Client.clear_cache, line 373: target.clear().
clear(map) == EmptyMap

\* Client.clear_cache: each of GROUPS, USERS, MESSAGES is cleared.
ClearCache ==
    /\ turn = NoTurn
    /\ GROUPS' = clear(GROUPS)
    /\ USERS' = clear(USERS)
    /\ MESSAGES' = clear(MESSAGES)
    /\ lookup' = [fn |-> "clear_cache", id |-> ""]
    /\ UNCHANGED <<memo, lazy>>
    /\ UNCHANGED <<handlers, nreg, pending, ignore_standby, req, trace, turn>>
    /\ UNCHANGED beyondCache

\* ---------------------------------------------------- command and postback
\* Strings the routers take apart are sequences of characters.
Digits == {"1"}
Space == <<" ">>
Semicolon == <<";">>

\* str.startswith, s[n:], str.rstrip, str.join and str.split(sep) for a
\* separator of one character.
startswith(s, p) == Len(s) >= Len(p) /\ SubSeq(s, 1, Len(p)) = p
slice_from(s, n) == SubSeq(s, n + 1, Len(s))
RECURSIVE rstrip(_)
rstrip(s) ==
    IF s # <<>> /\ s[Len(s)] = " " THEN rstrip(SubSeq(s, 1, Len(s) - 1)) ELSE s
RECURSIVE join(_, _)
join(sep, parts) ==
    IF parts = <<>> THEN <<>>
    ELSE IF Len(parts) = 1 THEN parts[1]
    ELSE parts[1] \o sep \o join(sep, Tail(parts))
RECURSIVE split(_, _)
split(s, sep) ==
    IF \A k \in 1..Len(s) : s[k] # sep[1]
    THEN <<s>>
    ELSE LET k == CHOOSE x \in 1..Len(s) :
                     s[x] = sep[1] /\ \A y \in 1..(x - 1) : s[y] # sep[1]
         IN  <<SubSeq(s, 1, k - 1)>> \o split(SubSeq(s, k + 1, Len(s)), sep)

\* utils.postback_data: f"{name};{';'.join(str(i) for i in data)}".
postback_data(name, data) == name \o Semicolon \o join(Semicolon, data)

\* The annotations of a user function's parameters, and the types the
\* routers accept.  NoType: the function declares no keyword-only parameter.
NoType == ""
Supported == {"str", "int", "float", "bool"}

\* _type(part): the value, or ValueError.  int() and float() take digits
\* only (of the characters of the model); bool() of a string is whether it
\* is non-empty; list() of a string is the list of its characters.
Value(type, text) == [type |-> type, text |-> text]
coerce(type, part) ==
    IF type \in {"int", "float"} /\ (part = <<>> \/ \E k \in 1..Len(part) : part[k] \notin Digits)
    THEN [exc |-> "ValueError", value |-> Value("", <<>>)]
    ELSE IF type = "bool"
    THEN [exc |-> "", value |-> Value("bool", IF part = <<>> THEN <<"F">> ELSE <<"T">>)]
    ELSE [exc |-> "", value |-> Value(type, part)]

\* utils.get_params_with_types for a function (ctx, *regular, *, *kws):
\* the annotations of the parameters after the first; a second
\* keyword-only parameter raises TypeError.
get_params_with_types(func) ==
    [exc |-> IF Len(func.kws) > 1 THEN "TypeError" ELSE "",
     regular |-> func.regular,
     kw |-> IF func.kws = <<>> THEN NoType ELSE func.kws[1]]

\* The for loop of on_text (531-549) and on_postback (460-478), from the
\* part at `index` (counted from 1) on: a part beyond the positional
\* parameters is added to the keyword-only argument, followed by `glue`
\* (" " in on_text, nothing in on_postback); without a keyword-only
\* parameter it indexes meta['regular'] out of range.  kwargs is the dict,
\* as the sequence of its values (none or one).
RECURSIVE router_loop(_, _, _, _, _, _)
router_loop(meta, parts, glue, index, args, kwargs) ==
    IF index > Len(parts)
    THEN [exc |-> "", args |-> args, kwargs |-> kwargs]
    ELSE IF meta.kw # NoType /\ index > Len(meta.regular)
    THEN router_loop(meta, parts, glue, index + 1, args,
                     <<(IF kwargs = <<>> THEN <<>> ELSE kwargs[1]) \o parts[index] \o glue>>)
    ELSE IF index > Len(meta.regular)
    THEN [exc |-> "IndexError", args |-> args, kwargs |-> kwargs]
    ELSE IF meta.regular[index] \notin Supported
    THEN [exc |-> "TypeError", args |-> args, kwargs |-> kwargs]
    ELSE IF coerce(meta.regular[index], parts[index]).exc # ""
    THEN [exc |-> "ValueError", args |-> args, kwargs |-> kwargs]
    ELSE router_loop(meta, parts, glue, index + 1,
                     Append(args, coerce(meta.regular[index], parts[index]).value), kwargs)

\* What a router did with one context: the exception it raised, whether it
\* called the user function, and the arguments after ctx.
Routed(exc, called, args, kwargs) ==
    [exc |-> exc, called |-> called, args |-> args, kwargs |-> kwargs]

\* await func(*args, **kwargs): the call binds only when every parameter
\* has its argument.
call_func(meta, args, kwargs) ==
    IF Len(args) # Len(meta.regular) \/ (meta.kw # NoType /\ kwargs = <<>>)
    THEN Routed("TypeError", FALSE, args, kwargs)
    ELSE Routed("", TRUE, args, kwargs)

\* Client.postback.on_postback, lines 454-484, registered with prefix
\* `data`, on a context whose data is ctx_data.
on_postback(data, meta, ctx_data) ==
    LET parts == split(slice_from(ctx_data, Len(data \o Semicolon)), Semicolon)
        l == router_loop(meta, parts, <<>>, 1, <<>>, <<>>)
    IN  IF l.exc # "" THEN Routed(l.exc, FALSE, l.args, l.kwargs)
        ELSE IF l.kwargs # <<>> /\ coerce(meta.kw, l.kwargs[1]).exc # ""
        THEN Routed("ValueError", FALSE, l.args, l.kwargs)
        ELSE call_func(meta, l.args,
                       IF l.kwargs = <<>> THEN <<>>
                       ELSE <<coerce(meta.kw, l.kwargs[1]).value>>)

\* Client.command.on_text, lines 519-555, registered with name cmd_name, on
\* a context whose text is content.
on_text(cmd_name, meta, content) ==
    IF ~startswith(content, cmd_name)
    THEN Routed("", FALSE, <<>>, <<>>)
    ELSE IF meta.kw = NoType /\ meta.regular = <<>>
    THEN Routed("", TRUE, <<>>, <<>>)
    ELSE LET parts == split(slice_from(content, Len(cmd_name \o Space)), Semicolon)
             l == router_loop(meta, parts, Space, 1, <<>>, <<>>)
         IN  IF l.exc # "" THEN Routed(l.exc, FALSE, l.args, l.kwargs)
             ELSE call_func(meta, l.args,
                            IF l.kwargs = <<>> THEN <<>>
                            ELSE <<Value("str", rstrip(l.kwargs[1]))>>)

\* A user function: whether it is a coroutine function, the annotations of
\* its positional parameters after ctx, and of its keyword-only parameters.
Func(coro, regular, kws) == [coro |-> coro, regular |-> regular, kws |-> kws]
UserFunctions ==
    {Func(TRUE, <<>>, <<>>), Func(TRUE, <<"str">>, <<>>),
     Func(TRUE, <<"int">>, <<"str">>), Func(TRUE, <<"str">>, <<"list">>),
     Func(TRUE, <<"list">>, <<>>), Func(TRUE, <<>>, <<"str", "str">>),
     Func(FALSE, <<"str">>, <<>>)}

\* The command names and postback prefixes of the model.
RouterNames == {<<"n">>, <<"m">>}

\* The command() and postback() registrations of one behaviour.
RouterRegs == {1, 2}

\* Nothing was registered through command() or postback().
NoRouters ==
    /\ commands = <<>>
    /\ routers = <<>>
    /\ attempts = <<>>
    /\ invoked = <<>>

Attempt(kind, name, func, exc) == [kind |-> kind, name |-> name, func |-> func, exc |-> exc]
Router(kind, name, meta) == [kind |-> kind, name |-> name, meta |-> meta]

\* A duplicate test that never finds the name.
never_in(name, cmds) == FALSE

\* Client.command.wrapper, line 502: name in self._commands.
name_in(name, cmds) == \E k \in 1..Len(cmds) : cmds[k] = name

\* Client.command(name=name)(func), lines 501-556: a name already used
\* raises ValueError, a function that is not a coroutine function raises
\* TypeError; otherwise the name is appended to _commands, then
\* get_params_with_types may raise, and on_text is registered through
\* Client.event, i.e. appended to handlers['text'].
CommandReg(name, func) ==
    /\ Len(attempts) + 1 \in RouterRegs
    /\ nreg < MaxHandlers
    /\ turn = NoTurn
    /\ IF name_in(name, commands)
       THEN /\ attempts' = Append(attempts, Attempt("command", name, func, "ValueError"))
            /\ UNCHANGED <<commands, routers, handlers, nreg>>
       ELSE IF ~func.coro
       THEN /\ attempts' = Append(attempts, Attempt("command", name, func, "TypeError"))
            /\ UNCHANGED <<commands, routers, handlers, nreg>>
       ELSE IF get_params_with_types(func).exc # ""
       THEN /\ attempts' = Append(attempts, Attempt("command", name, func, "TypeError"))
            /\ commands' = Append(commands, name)
            /\ UNCHANGED <<routers, handlers, nreg>>
       ELSE /\ attempts' = Append(attempts, Attempt("command", name, func, ""))
            /\ commands' = Append(commands, name)
            /\ routers' = Store(routers, nreg + 1,
                                Router("command", name, get_params_with_types(func)))
            /\ handlers' = listen(handlers, "text", nreg + 1)
            /\ nreg' = nreg + 1
    /\ UNCHANGED invoked
    /\ UNCHANGED <<pending, MESSAGES, ignore_standby, req, trace, turn>>
    /\ UNCHANGED <<waiter, replyVars, rateVars, cacheVars, fixtureVars, via>>

\* Client.postback(data)(func), lines 445-486: a function that is not a
\* coroutine function, or has two keyword-only parameters, raises
\* TypeError; otherwise on_postback is appended to handlers['postback'].
PostbackReg(data, func) ==
    /\ Len(attempts) + 1 \in RouterRegs
    /\ nreg < MaxHandlers
    /\ turn = NoTurn
    /\ IF ~func.coro \/ get_params_with_types(func).exc # ""
       THEN /\ attempts' = Append(attempts, Attempt("postback", data, func, "TypeError"))
            /\ UNCHANGED <<routers, handlers, nreg>>
       ELSE /\ attempts' = Append(attempts, Attempt("postback", data, func, ""))
            /\ routers' = Store(routers, nreg + 1,
                                Router("postback", data, get_params_with_types(func)))
            /\ handlers' = listen(handlers, "postback", nreg + 1)
            /\ nreg' = nreg + 1
    /\ UNCHANGED <<commands, invoked>>
    /\ UNCHANGED <<pending, MESSAGES, ignore_standby, req, trace, turn>>
    /\ UNCHANGED <<waiter, replyVars, rateVars, cacheVars, fixtureVars, via>>

Call(h, r, i, args, kwargs) == [h |-> h, r |-> r, ev |-> i, args |-> args, kwargs |-> kwargs]

\* emit, line 259, when the awaited handler is an on_text or on_postback:
\* the router runs on the context; an exception it raises leaves emit,
\* process and webhook like any handler's; otherwise it calls the user
\* function or not, and returns when that has returned.
RouterRun(r) ==
    LET q == req[r]
        h == Registry(r)[q.name][q.hidx]
        ev == q.payload[q.context[1].i]
        res == IF routers[h].kind = "command"
               THEN on_text(routers[h].name, routers[h].meta, ev.text)
               ELSE on_postback(routers[h].name, routers[h].meta, ev.text)
    IN
    /\ q.pc = "handler"
    /\ CanRun(ReqTurn(r))
    /\ h \in DOMAIN routers
    /\ IF res.exc # ""
       THEN /\ Abort(r, res.exc)
            /\ UNCHANGED <<trace, invoked>>
       ELSE /\ req' = [req EXCEPT ![r].pc = "emit", ![r].hidx = @ + 1]
            /\ turn' = ReqTurn(r)
            /\ trace' = [trace EXCEPT ![r] = Append(@, Op("end", q.idx, h, q.context[1]))]
            /\ invoked' = IF res.called
                          THEN Append(invoked, Call(h, r, q.idx, res.args, res.kwargs))
                          ELSE invoked
    /\ UNCHANGED <<commands, routers, attempts>>
    /\ UNCHANGED <<handlers, nreg, pending, MESSAGES, ignore_standby>>
    /\ UNCHANGED <<waiter, replyVars, rateVars, cacheVars, fixtureVars, via>>

\* ------------------------------------------------------- context accessors
\* An event is a JSON object; the constructors and accessors below read it
\* through the paths of Paths.  A path maps to a JSON value or to Absent.
Absent == "absent"
NoneVal == "None"
FieldValues == {"a", "b"}
Paths ==
    {"joined.members", "left.members",
     "message.packageId", "message.keywords", "message.text",
     "postback.data", "postback.params", "postback.params.datetime",
     "postback.params.newRichMenuAliasId",
     "link.result", "link.nonce", "link.nounce"}
Got(exc, value) == [exc |-> exc, value |-> value]
\* d[k]: KeyError for an absent key.
item(d, k) == IF d[k] = Absent THEN Got("KeyError", NoneVal) ELSE Got("", d[k])
\* d.get(k): None for an absent key.
get(d, k) == IF d[k] = Absent THEN Got("", NoneVal) ELSE Got("", d[k])

ContextClasses ==
    {"MemberJoinContext", "MemberLeaveContext", "StickerMessageContext",
     "PostbackContext", "AccountLinkContext"}
\* __init__ of the context classes: the exception the subscripts raise.
construct(cls, d) ==
    CASE cls = "MemberJoinContext" -> item(d, "joined.members").exc
      [] cls = "MemberLeaveContext" -> item(d, "joined.members").exc
      [] cls = "StickerMessageContext" -> item(d, "message.packageId").exc
      [] cls = "PostbackContext" -> item(d, "postback.data").exc
      [] cls = "AccountLinkContext" -> item(d, "link.result").exc
\* The properties of the context classes.
Accessors(cls) ==
    CASE cls = "MemberJoinContext" -> {"members"}
      [] cls = "MemberLeaveContext" -> {"members"}
      [] cls = "StickerMessageContext" -> {"package_id", "keywords", "text"}
      [] cls = "PostbackContext" -> {"data", "datetime", "newRichMenuAliasId"}
      [] cls = "AccountLinkContext" -> {"result", "nounce"}
\* What a property returns on a context constructed from d.
accessor(cls, a, d) ==
    CASE a = "members" -> item(d, "joined.members")
      [] a = "package_id" -> item(d, "message.packageId")
      [] a = "keywords" -> get(d, "message.keywords")
      [] a = "text" -> Got("RecursionError", NoneVal)
      [] a = "data" -> item(d, "postback.data")
      [] a = "datetime" ->
            IF item(d, "postback.params").exc # ""
            THEN item(d, "postback.params")
            ELSE get(d, "postback.params.datetime")
      [] a = "newRichMenuAliasId" ->
            IF item(d, "postback.params").exc # ""
            THEN item(d, "postback.params")
            ELSE get(d, "postback.params.newRichMenuAliasId")
      [] a = "result" -> item(d, "link.result")
      [] a = "nounce" -> item(d, "link.nounce")

\* The paths a well-formed event of each class carries, and those it may.
RequiredKeys(cls) ==
    CASE cls = "MemberJoinContext" -> {"joined.members"}
      [] cls = "MemberLeaveContext" -> {"left.members"}
      [] cls = "StickerMessageContext" -> {"message.packageId"}
      [] cls = "PostbackContext" -> {"postback.data"}
      [] cls = "AccountLinkContext" -> {"link.result", "link.nonce"}
OptionalKeys(cls) ==
    CASE cls = "StickerMessageContext" -> {"message.keywords", "message.text"}
      [] cls = "PostbackContext" ->
            {"postback.params", "postback.params.datetime",
             "postback.params.newRichMenuAliasId"}
      [] OTHER -> {}
Fixtures(cls) ==
    {d \in [Paths -> FieldValues \cup {Absent}] :
        /\ \A k \in RequiredKeys(cls) : d[k] # Absent
        /\ \A k \in Paths \ (RequiredKeys(cls) \cup OptionalKeys(cls)) : d[k] = Absent
        /\ d["postback.params"] = Absent
              => /\ d["postback.params.datetime"] = Absent
                 /\ d["postback.params.newRichMenuAliasId"] = Absent}

NoContext == [cls |-> "", data |-> [k \in Paths |-> Absent], exc |-> ""]
NoRead == [name |-> "", exc |-> "", value |-> NoneVal]
NoFixture ==
    /\ built = NoContext
    /\ got = NoRead

\* process() constructs the context of an event.
Construct(cls, d) ==
    /\ built.cls = ""
    /\ built' = [cls |-> cls, data |-> d, exc |-> construct(cls, d)]
    /\ UNCHANGED got
    /\ UNCHANGED beyondFixture

\* A handler reads a property of the context.
Read(a) ==
    /\ built.cls # "" /\ built.exc = ""
    /\ got.name = ""
    /\ a \in Accessors(built.cls)
    /\ got' = [name |-> a, exc |-> accessor(built.cls, a, built.data).exc,
               value |-> accessor(built.cls, a, built.data).value]
    /\ UNCHANGED built
    /\ UNCHANGED beyondFixture

\* ------------------------------------------------------ the specification
\* The state after Client() was constructed.
Init ==
    /\ handlers = [n \in PredefinedNames |-> <<>>]
    /\ nreg = 0
    /\ pending = [n \in PredefinedNames |-> <<>>]
    /\ MESSAGES = <<>>
    /\ ignore_standby = TRUE
    /\ req = [r \in Reqs |-> IdleReq]
    /\ trace = [r \in Reqs |-> <<>>]
    /\ turn = NoTurn
    /\ waiter = [w \in Waiters |-> IdleWaiter]
    /\ NoReply
    /\ NoRate
    /\ NewCache
    /\ NoRouters
    /\ NoFixture
    /\ via = OneClient

\* The header values a POST with body p may carry: none, or the signature
\* of p under the channel secret or under another key.
Headers(p) == {MissingSignature} \cup {Signature(k, p) : k \in Keys}

Payloads == SeqsUpTo(EventAlphabet, MaxEvents)

\* Spec: one delivery, handlers registered at any time.
Next ==
    \/ \E p \in Payloads : \E h \in Headers(p) : Post(1, p, h)
    \/ \E r \in Reqs : ProcessEmpty(r)
    \/ \E r \in Reqs : ProcessEvent(r)
    \/ \E r \in Reqs : ProcessReturn(r)
    \/ \E r \in Reqs : EmitNext(r)
    \/ \E r \in Reqs : HandlerReturn(r)
    \/ \E r \in Reqs : HandlerRaise(r)
    \/ \E n \in ListenNames : Listen(n)

Spec == Init /\ [][Next]_vars

\* SpecWait: one delivery and one wait_for call, made at any time by a task
\* of its own, after one handler was registered on "text".
WaitAlphabet == {TextEvent("a"), TextEvent("b"), VideoCompleteEvent}
WaitPayloads == SeqsUpTo(WaitAlphabet, MaxEvents)
WaitNames == {"text", "video_complete"}

InitWait ==
    /\ handlers = [n \in PredefinedNames |-> IF n = "text" THEN <<1>> ELSE <<>>]
    /\ nreg = 1
    /\ pending = [n \in PredefinedNames |-> <<>>]
    /\ MESSAGES = <<>>
    /\ ignore_standby = TRUE
    /\ req = [r \in Reqs |-> IdleReq]
    /\ trace = [r \in Reqs |-> <<>>]
    /\ turn = NoTurn
    /\ waiter = [w \in Waiters |-> IdleWaiter]
    /\ NoReply
    /\ NoRate
    /\ NewCache
    /\ NoRouters
    /\ NoFixture
    /\ via = OneClient

NextWait ==
    \/ \E p \in WaitPayloads : \E h \in Headers(p) : Post(1, p, h)
    \/ \E r \in Reqs : ProcessEmpty(r)
    \/ \E r \in Reqs : ProcessEvent(r)
    \/ \E r \in Reqs : ProcessReturn(r)
    \/ \E r \in Reqs : EmitNext(r)
    \/ \E r \in Reqs : HandlerReturn(r)
    \/ \E r \in Reqs : HandlerRaise(r)
    \/ \E n \in WaitNames : \E c \in Checks : \E t \in Timeouts : WaitRegister(1, n, c, t)
    \/ \E w \in Waiters : WaitWake(w)
    \/ \E w \in Waiters : WaitSpin(w)

SpecWait == InitWait /\ [][NextWait]_vars

\* SpecWaiters: one signed delivery of text messages and two wait_for calls
\* on "text", made at any time by tasks of their own; no handler is
\* registered.  The event loop runs every task that is ready: the steps of
\* a delivery and the end of a sleep are taken when they can be.
SignedTexts == SeqsUpTo({TextEvent("a"), TextEvent("b")}, MaxEvents)

NextWaiters ==
    \/ \E p \in SignedTexts : Post(1, p, valid_signature(p))
    \/ \E r \in Reqs : ProcessEmpty(r)
    \/ \E r \in Reqs : ProcessEvent(r)
    \/ \E r \in Reqs : ProcessReturn(r)
    \/ \E r \in Reqs : EmitNext(r)
    \/ \E w \in Waiters : \E c \in Checks : \E t \in Timeouts : WaitRegister(w, "text", c, t)
    \/ \E w \in Waiters : WaitWake(w)
    \/ \E w \in Waiters : WaitSpin(w)

FairWaiters ==
    /\ \A r \in Reqs : WF_vars(ProcessEmpty(r))
    /\ \A r \in Reqs : WF_vars(ProcessEvent(r))
    /\ \A r \in Reqs : WF_vars(ProcessReturn(r))
    /\ \A r \in Reqs : WF_vars(EmitNext(r))
    /\ \A w \in Waiters : WF_vars(WaitWake(w))
    /\ \A w \in Waiters : WF_vars(WaitSpin(w))

SpecWaiters == Init /\ [][NextWaiters]_vars /\ FairWaiters

\* SpecReply: contexts of any age, with or without a reply token, and
\* reply() calls made on them at any time; a call may be made while an
\* earlier one is still awaiting its request.
InitReply ==
    /\ handlers = [n \in PredefinedNames |-> <<>>]
    /\ nreg = 0
    /\ pending = [n \in PredefinedNames |-> <<>>]
    /\ MESSAGES = <<>>
    /\ ignore_standby = TRUE
    /\ req = [r \in Reqs |-> IdleReq]
    /\ trace = [r \in Reqs |-> <<>>]
    /\ turn = NoTurn
    /\ waiter = [w \in Waiters |-> IdleWaiter]
    /\ now = 0
    /\ rctx \in [RCtxs -> {NewContext(ts, tok) : ts \in Timestamps, tok \in BOOLEAN}]
    /\ call = [k \in ReplyCalls |-> IdleCall]
    /\ outbox = <<>>
    /\ NoRate
    /\ NewCache
    /\ NoRouters
    /\ NoFixture
    /\ via = OneClient

NextReply ==
    \/ \E k \in ReplyCalls : \E c \in RCtxs : \E m \in ReplyArgs : ReplyCall(k, c, m)
    \/ \E k \in ReplyCalls : ReplyDone(k)
    \/ \E t \in Instants : Tick(t)

SpecReply == InitReply /\ [][NextReply]_vars

\* SpecRate: calls of functions of http.py made at any time, by tasks of
\* their own, while the clock runs from 1 to MaxClock.
InitRate ==
    /\ handlers = [n \in PredefinedNames |-> <<>>]
    /\ nreg = 0
    /\ pending = [n \in PredefinedNames |-> <<>>]
    /\ MESSAGES = <<>>
    /\ ignore_standby = TRUE
    /\ req = [r \in Reqs |-> IdleReq]
    /\ trace = [r \in Reqs |-> <<>>]
    /\ turn = NoTurn
    /\ waiter = [w \in Waiters |-> IdleWaiter]
    /\ now = 1
    /\ rctx = [c \in RCtxs |-> NewContext(0, FALSE)]
    /\ call = [k \in ReplyCalls |-> IdleCall]
    /\ outbox = <<>>
    /\ NoRate
    /\ NewCache
    /\ NoRouters
    /\ NoFixture
    /\ via = OneClient

NextRate ==
    \/ \E k \in ApiCalls : \E fn \in HttpFunctions : ApiCall(k, fn)
    \/ \E k \in ApiCalls : ApiRetry(k)
    \/ \E k \in ApiCalls : ApiOverflow(k)
    \/ \E k \in ApiCalls : ApiWake(k)
    \/ \E t \in 1..MaxClock : Tick(t)

SpecRate == InitRate /\ [][NextRate]_vars

\* SpecStandby: a client constructed with either value of ignore_standby,
\* one handler on "text", one signed delivery of active and standby events
\* and one wait_for call on "text", made at any time by a task of its own.
StandbyAlphabet ==
    {TextEvent("a"), PostbackEvent, StandbyTextEvent, StandbyPostbackEvent,
     StandbyMalformedEvent}
StandbyPayloads == SeqsUpTo(StandbyAlphabet, MaxEvents)

InitStandby ==
    /\ handlers = [n \in PredefinedNames |-> IF n = "text" THEN <<1>> ELSE <<>>]
    /\ nreg = 1
    /\ pending = [n \in PredefinedNames |-> <<>>]
    /\ MESSAGES = EmptyMap
    /\ ignore_standby \in BOOLEAN
    /\ req = [r \in Reqs |-> IdleReq]
    /\ trace = [r \in Reqs |-> <<>>]
    /\ turn = NoTurn
    /\ waiter = [w \in Waiters |-> IdleWaiter]
    /\ NoReply
    /\ NoRate
    /\ NewCache
    /\ NoRouters
    /\ NoFixture
    /\ via = OneClient

NextStandby ==
    \/ \E p \in StandbyPayloads : Post(1, p, valid_signature(p))
    \/ \E r \in Reqs : ProcessEmpty(r)
    \/ \E r \in Reqs : ProcessEvent(r)
    \/ \E r \in Reqs : ProcessReturn(r)
    \/ \E r \in Reqs : EmitNext(r)
    \/ \E r \in Reqs : HandlerReturn(r)
    \/ \E r \in Reqs : HandlerRaise(r)
    \/ WaitRegister(1, "text", "any", 0)
    \/ \E w \in Waiters : WaitWake(w)

SpecStandby == InitStandby /\ [][NextStandby]_vars

\* SpecCache: the running server with one handler on "text": one signed
\* delivery of fewer than MaxEvents text messages, one wait_for call, one
\* author() or group() call on the context of a group chat, and calls of
\* the getters and of clear_cache, each made at any time by a task of its
\* own.
CachePayloads == SeqsUpTo({TextEvent("a"), OtherTextEvent}, MaxEvents - 1)

InitCache ==
    /\ handlers = [n \in PredefinedNames |-> IF n = "text" THEN <<1>> ELSE <<>>]
    /\ nreg = 1
    /\ pending = [n \in PredefinedNames |-> <<>>]
    /\ MESSAGES = EmptyMap
    /\ ignore_standby = TRUE
    /\ req = [r \in Reqs |-> IdleReq]
    /\ trace = [r \in Reqs |-> <<>>]
    /\ turn = NoTurn
    /\ waiter = [w \in Waiters |-> IdleWaiter]
    /\ NoReply
    /\ NoRate
    /\ NewCache
    /\ NoRouters
    /\ NoFixture
    /\ via = OneClient

NextCache ==
    \/ \E p \in CachePayloads : Post(1, p, valid_signature(p))
    \/ \E r \in Reqs : ProcessEmpty(r)
    \/ \E r \in Reqs : ProcessEvent(r)
    \/ \E r \in Reqs : ProcessReturn(r)
    \/ \E r \in Reqs : EmitNext(r)
    \/ \E r \in Reqs : HandlerReturn(r)
    \/ \E r \in Reqs : HandlerRaise(r)
    \/ WaitRegister(1, "text", "any", 0)
    \/ \E w \in Waiters : WaitWake(w)
    \/ \E k \in LazyKinds : LazyCall(1, "text_group", k)
    \/ \E f \in LazyCalls : LazyAnswer(f)
    \/ \E f \in LazyCalls : LazyGateRaise(f)
    \/ \E id \in UserIds \cup {BotId} : GetUser(id)
    \/ \E id \in GroupIds : GetGroup(id)
    \/ \E id \in MessageIds : GetMessage(id)
    \/ ClearCache

SpecCache == InitCache /\ [][NextCache]_vars

\* SpecLazy: author() and group() calls on three contexts, made at any
\* time by tasks of their own, between calls of the getters and of
\* clear_cache.
NextLazy ==
    \/ \E f \in LazyCalls : \E c \in LCtxs : \E k \in LazyKinds : LazyCall(f, c, k)
    \/ \E f \in LazyCalls : LazyAnswer(f)
    \/ \E f \in LazyCalls : LazyGateRaise(f)
    \/ \E id \in UserIds \cup {BotId} : GetUser(id)
    \/ \E id \in GroupIds : GetGroup(id)
    \/ ClearCache

SpecLazy == InitCache /\ [][NextLazy]_vars

\* SpecRouter: up to two registrations through command() and postback(),
\* made at any time, and one signed delivery of one text message or
\* postback event whose text or data is the name "n" followed by up to
\* MaxSegs segments.
MaxSegs == 3
SegValues == {<<"x">>, <<"1">>}
Segments == SeqsUpTo(SegValues, MaxSegs)
CommandEvent(name, segs) ==
    Event("message", "text", "active", TRUE, name \o Space \o join(Semicolon, segs), "m1")
PostbackDataEvent(name, segs) ==
    Event("postback", "", "active", TRUE, postback_data(name, segs), "")
RouterPayloads ==
    {<<CommandEvent(<<"n">>, g)>> : g \in Segments}
        \cup {<<PostbackDataEvent(<<"n">>, g)>> : g \in Segments}

NextRouter ==
    \/ \E n \in RouterNames : \E f \in UserFunctions : CommandReg(n, f)
    \/ \E n \in RouterNames : \E f \in UserFunctions : PostbackReg(n, f)
    \/ \E p \in RouterPayloads : Post(1, p, valid_signature(p))
    \/ \E r \in Reqs : ProcessEvent(r)
    \/ \E r \in Reqs : ProcessReturn(r)
    \/ \E r \in Reqs : EmitNext(r)
    \/ \E r \in Reqs : RouterRun(r)

SpecRouter == Init /\ [][NextRouter]_vars

\* Well-formed events of five classes, constructed and read.
NextFixture ==
    \/ \E cls \in ContextClasses : \E d \in Fixtures(cls) : Construct(cls, d)
    \/ \E a \in UNION {Accessors(cls) : cls \in ContextClasses} : Read(a)

SpecFixture == Init /\ [][NextFixture]_vars

\* Deliveries whose header is any signature: of this or another body, under
\* the channel secret or another key.  The bodies differ in one bit of the
\* text ('a' is 0x61, 'c' is 0x63), the keys in one bit of the last letter.
SignBodies == SeqsUpTo({TextEvent("a"), TextEvent("c")}, 1)
SignKeys == {ChannelSecret, "secreu"}
SignHeaders == {MissingSignature} \cup {Signature(k, b) : k \in SignKeys, b \in SignBodies}

NextSign ==
    \/ \E r \in Reqs : \E p \in SignBodies : \E h \in SignHeaders : Post(r, p, h)
    \/ \E r \in Reqs : ProcessEmpty(r)
    \/ \E r \in Reqs : ProcessEvent(r)
    \/ \E r \in Reqs : ProcessReturn(r)
    \/ \E r \in Reqs : EmitNext(r)
    \/ \E r \in Reqs : HandlerReturn(r)
    \/ Listen("text")

SpecSign == Init /\ [][NextSign]_vars

\* Registrations of every kind, on a predefined channel and on a channel of
\* the user's own, with deliveries and wait_for calls in between.
RegistryNames == {"text", "custom"}
RegistryFunctions == {Func(TRUE, <<>>, <<>>), Func(FALSE, <<"str">>, <<>>)}
RegistryPayloads ==
    {<<CommandEvent(<<"n">>, <<>>)>>, <<PostbackDataEvent(<<"n">>, <<<<"x">>>>)>>}

NextRegistry ==
    \/ \E n \in RegistryNames : Listen(n)
    \/ \E f \in RegistryFunctions : CommandReg(<<"n">>, f)
    \/ \E f \in RegistryFunctions : PostbackReg(<<"n">>, f)
    \/ \E p \in RegistryPayloads : Post(1, p, valid_signature(p))
    \/ \E r \in Reqs : ProcessEvent(r)
    \/ \E r \in Reqs : ProcessReturn(r)
    \/ \E r \in Reqs : EmitNext(r)
    \/ \E r \in Reqs : HandlerReturn(r)
    \/ \E r \in Reqs : RouterRun(r)
    \/ \E n \in RegistryNames : WaitRegister(1, n, "any", 0)
    \/ \E w \in Waiters : WaitWake(w)

SpecRegistry == Init /\ [][NextRegistry]_vars

\* Two Client instances: the handlers are registered through either, the
\* delivery is posted to either one's app and wait_for is called on either.
InitShared ==
    /\ handlers = [n \in PredefinedNames |-> <<>>]
    /\ nreg = 0
    /\ pending = [n \in PredefinedNames |-> <<>>]
    /\ MESSAGES = <<>>
    /\ ignore_standby = TRUE
    /\ req = [r \in Reqs |-> IdleReq]
    /\ trace = [r \in Reqs |-> <<>>]
    /\ turn = NoTurn
    /\ waiter = [w \in Waiters |-> IdleWaiter]
    /\ NoReply
    /\ NoRate
    /\ NewCache
    /\ NoRouters
    /\ NoFixture
    /\ via \in {v \in Vias : v.req[2] = 1 /\ v.wait[2] = 1}

NextShared ==
    \/ Listen("text")
    \/ Post(1, <<TextEvent("a")>>, valid_signature(<<TextEvent("a")>>))
    \/ \E r \in Reqs : ProcessEvent(r)
    \/ \E r \in Reqs : ProcessReturn(r)
    \/ \E r \in Reqs : EmitNext(r)
    \/ \E r \in Reqs : HandlerReturn(r)
    \/ WaitRegister(1, "text", "any", 0)
    \/ WaitWake(1)

SpecShared == InitShared /\ [][NextShared]_vars

\* ------------------------------------------------------------------ claims
\* What a delivery's trace says.
OpsAt(r, op, i) == SelectSeq(trace[r], LAMBDA o : o.op = op /\ o.ev = i)
StartHandlers(r, i) == [k \in 1..Len(OpsAt(r, "start", i)) |-> OpsAt(r, "start", i)[k].h]
Dispatched(r, i) == Len(OpsAt(r, "fulfill", i)) > 0
Decodable(ev) == Decode(ev).exc = ""
IsPrefix(s, t) == Len(s) <= Len(t) /\ \A k \in 1..Len(s) : s[k] = t[k]
Accepted(r) == req[r].pc # "idle" /\ req[r].response # 400

\* C1: a POST whose X-Line-Signature is not the signature of its body
\* under the channel secret (a missing header included) is answered 400
\* and its payload is not processed: nothing is decoded, no slot is
\* written, no handler runs, and no context of it reaches a pending slot,
\* a waiter or the message cache.
C1_InvalidSignatureRejected ==
    \A r \in Reqs :
        (req[r].pc # "idle" /\ req[r].header # Signature(ChannelSecret, req[r].payload))
           => /\ req[r].pc = "done"
              /\ req[r].response = 400
              /\ trace[r] = <<>>
              /\ \A n \in DOMAIN pending : \A k \in DOMAIN pending[n] : pending[n][k].r # r
              /\ \A k \in DOMAIN MESSAGES : MESSAGES[k].r # r
              /\ \A w \in Waiters : waiter[w].result.r # r

\* C1's case: a delivery with events and a bad signature was answered
\* while a wait_for call sleeps on the channel of its first event.
C1_Witness ==
    \E r \in Reqs : \E w \in Waiters :
        /\ req[r].response = 400
        /\ req[r].payload # <<>>
        /\ waiter[w].pc = "sleep"
        /\ waiter[w].name = Decode(req[r].payload[1]).name
        /\ pending[waiter[w].name][w] = NoneCtx

\* C2: within one payload the events are handled in array order and one
\* at a time: everything done for event i comes before anything done for a
\* later event j, and every handler started for i has ended before j is
\* decoded, before a pending slot is written for j and before a handler
\* for j starts; at most one handler invocation is open at any time.
C2_EventsInOrderOneAtATime ==
    \A r \in Reqs :
        LET t == trace[r] IN
        /\ \A x, y \in 1..Len(t) : t[x].ev < t[y].ev => x < y
        /\ \A x, y \in 1..Len(t) :
              (t[x].op = "start" /\ t[x].ev < t[y].ev)
                 => \E e \in (x + 1)..(y - 1) :
                       t[e].op = "end" /\ t[e].ev = t[x].ev /\ t[e].h = t[x].h
        /\ Len(SelectSeq(t, LAMBDA o : o.op = "start"))
              - Len(SelectSeq(t, LAMBDA o : o.op = "end")) \in {0, 1}

\* C2's case: two events of one payload have both had a handler run.
C2_Witness ==
    \E r \in Reqs :
        /\ Len(OpsAt(r, "end", 1)) > 0
        /\ Len(OpsAt(r, "end", 2)) > 0

\* C3 (order): for one dispatched event the handlers started are, in order,
\* the head of the channel's list, which is in registration order, and a
\* handler starts only right after the slots were written (the first) or
\* right after the previous handler has ended.
C3_Order ==
    /\ \A n \in DOMAIN handlers :
          \A k, l \in 1..Len(handlers[n]) : k < l => handlers[n][k] < handlers[n][l]
    /\ \A r \in Reqs :
          /\ \A i \in 1..Len(req[r].payload) :
                Dispatched(r, i)
                   => IsPrefix(StartHandlers(r, i), handlers[Decode(req[r].payload[i]).name])
          /\ \A x \in 1..Len(trace[r]) :
                trace[r][x].op = "start"
                   => /\ x > 1
                      /\ trace[r][x - 1].ev = trace[r][x].ev
                      /\ trace[r][x - 1].op \in {"fulfill", "end"}

\* C3: the handlers of the event's channel run in registration order, one
\* after the other, and the dispatch of an event ends only when every
\* handler registered on the channel has been started.
C3_HandlersInRegistrationOrder ==
    /\ []C3_Order
    /\ [][\A r \in Reqs :
            (req[r].pc = "emit" /\ req'[r].pc = "process")
               => StartHandlers(r, req[r].idx) = handlers[req[r].name]]_vars

\* C3's case: three handlers registered on one channel have all run for
\* one event.
C3_Witness ==
    \E r \in Reqs : \E i \in 1..Len(req[r].payload) :
        /\ StartHandlers(r, i) = <<1, 2, 3>>
        /\ Len(OpsAt(r, "end", i)) = 3

\* C4: a decode failure drops only the failing event: when a delivery in
\* which no handler failed has ended, every event of its payload that can
\* be decoded has been dispatched.
C4_DecodeFailureDropsOnlyThatEvent ==
    \A r \in Reqs :
        (Accepted(r) /\ req[r].pc = "done" /\ req[r].exc # "HandlerError")
           => \A i \in 1..Len(req[r].payload) :
                 Decodable(req[r].payload[i]) => Dispatched(r, i)

\* C5: a delivery in which a handler raised is still answered with 200.
C5_HandlerErrorStillAnswers200 ==
    \A r \in Reqs :
        (req[r].pc = "done" /\ req[r].exc = "HandlerError") => req[r].response = 200

\* C6: a handler failure does not abort the batch: when a delivery whose
\* events can all be decoded has ended, every one of them has been
\* dispatched, also those after an event whose handler raised.
C6_HandlerFailureKeepsBatch ==
    \A r \in Reqs :
        (/\ Accepted(r)
         /\ req[r].pc = "done"
         /\ \A i \in 1..Len(req[r].payload) : Decodable(req[r].payload[i]))
           => \A i \in 1..Len(req[r].payload) : Dispatched(r, i)

\* What the reply() calls and the outbox say.
Sent(c) == SelectSeq(outbox, LAMBDA m : m.c = c)
SentBy(k) == SelectSeq(outbox, LAMBDA m : m.k = k)
Made(k) == call[k].pc # "idle"
Passed(k) == call[k].pc \in {"sending", "returned"}
Late(k) == call[k].at - rctx[call[k].c].timestamp > ReplyWindow
Convertible(messages) == \A i \in 1..Len(messages) : messages[i].kind # "other"

\* C7: for every context, at most one reply request is ever sent, and every
\* reply() call made after the first call that passed its checks (whether
\* that call has returned or is still awaiting its request) raises
\* CannotReply and sends nothing.
C7_AtMostOneReply ==
    /\ \A c \in RCtxs : Len(Sent(c)) <= 1
    /\ \A j, k \in ReplyCalls :
          (j < k /\ Passed(j) /\ Made(k) /\ call[k].c = call[j].c)
             => /\ call[k].pc = "raised"
                /\ call[k].exc = "CannotReply"
                /\ SentBy(k) = <<>>

\* Three calls on one context inside the window: the first is still awaiting
\* its request when the second is made, the third comes after it returned.
C7_Witness ==
    /\ call[1].pc = "returned"
    /\ \A k \in {2, 3} :
          /\ call[k].c = call[1].c
          /\ call[k].exc = "CannotReply"
          /\ ~Late(k)
    /\ Len(outbox) = 1

\* C8: a reply() call made more than 20 minutes after the event's timestamp
\* raises CannotReply, sends no request and leaves the replied flag as it
\* was; a call made within the window on an unreplied context that has a
\* reply token, with messages that convert, passes and sends exactly one
\* request.
C8_ReplyWindow ==
    \A k \in ReplyCalls :
        Made(k) =>
            /\ Late(k) => /\ call[k].pc = "raised"
                          /\ call[k].exc = "CannotReply"
                          /\ SentBy(k) = <<>>
                          /\ call[k].after = call[k].was
            /\ (/\ ~Late(k)
                /\ ~call[k].was
                /\ rctx[call[k].c].reply_token
                /\ Convertible(call[k].messages))
                  => /\ Passed(k)
                     /\ Len(SentBy(k)) = 1

\* C9: a reply() call on a context without a reply token raises CannotReply,
\* sends no request and leaves the replied flag as it was.
C9_NoTokenCannotReply ==
    \A k \in ReplyCalls :
        (Made(k) /\ ~rctx[call[k].c].reply_token)
           => /\ call[k].pc = "raised"
              /\ call[k].exc = "CannotReply"
              /\ SentBy(k) = <<>>
              /\ call[k].after = call[k].was

\* C10: wait_for(name, check) returns only a context of channel `name`
\* (one decoded from an event of that channel) that check accepts and that
\* was not dispatched before the call registered.
C10_WaitForReturnsOnlyMatching ==
    \A w \in Waiters :
        waiter[w].pc = "returned"
           => /\ waiter[w].result # NoneCtx
              /\ Decode(EventOf(waiter[w].result)).name = waiter[w].name
              /\ Check(waiter[w].check, waiter[w].result)
              /\ waiter[w].result \notin waiter[w].before

\* What a wait_for call is doing.
Waiting(w) == waiter[w].pc \in {"sleep", "spin"}
Ended(w) == waiter[w].pc \in {"returned", "timeout"}
Slot(w) ==
    IF waiter[w].name \in DOMAIN pending /\ w \in DOMAIN pending[waiter[w].name]
    THEN pending[waiter[w].name][w]
    ELSE NoneCtx
SlotAccepted(w) == Slot(w) # NoneCtx /\ Check(waiter[w].check, Slot(w))
SlotRejected(w) == Slot(w) # NoneCtx /\ ~Check(waiter[w].check, Slot(w))

\* C11: a wait_for call with a timeout eventually raises Timeout, unless it
\* returns a context its check accepted; this whether no event arrives on
\* its channel or events arrive that its check rejects.
C11_TimeoutEventuallyRaised ==
    \A w \in Waiters :
        (waiter[w].pc = "sleep" /\ waiter[w].timeout # 0) ~> Ended(w)

\* C12: when a wait_for call has ended, by returning or by raising Timeout,
\* its request id is no longer in the pending map of its channel; once no
\* call is waiting, every channel's pending map is empty.
C12_EndedWaiterLeavesNoEntry ==
    /\ \A w \in Waiters : Ended(w) => w \notin DOMAIN pending[waiter[w].name]
    /\ (\A w \in Waiters : ~Waiting(w)) => \A n \in PredefinedNames : pending[n] = <<>>

\* C13: a waiter whose check rejects the context in its slot waits at its
\* sleep and does not hold the event loop, so that later events can be
\* dispatched and a later context can resolve it.
C13_RejectingWaiterYields ==
    \A w \in Waiters :
        (Waiting(w) /\ SlotRejected(w))
           => /\ waiter[w].pc = "sleep"
              /\ turn # WaitTurn(w)

\* C14: with several wait_for calls on one channel, a dispatched context is
\* written into every outstanding slot of the channel; a step of one waiter
\* (resolving, rejecting, timing out) changes neither the state nor the
\* pending entry of another; a waiter returns only a context its own check
\* accepts, and a waiter whose slot holds a context its check accepts
\* eventually ends, unless a later event replaces the context first.
C14_Fulfilled ==
    \A r \in Reqs :
        (Len(trace'[r]) > Len(trace[r]) /\ trace'[r][Len(trace'[r])].op = "fulfill")
           => \A w \in DOMAIN pending'[req[r].name'] :
                  pending'[req[r].name'][w] = trace'[r][Len(trace'[r])].ctx
C14_Independent ==
    \A w, v \in Waiters :
        (w # v /\ waiter'[w] # waiter[w] /\ Waiting(v))
           => /\ waiter'[v] = waiter[v]
              /\ v \in DOMAIN pending'[waiter[v].name]
              /\ pending'[waiter[v].name][v] = Slot(v)
C14_WaitersAreIndependent ==
    /\ [][C14_Fulfilled /\ C14_Independent]_vars
    /\ [](\A w \in Waiters :
             waiter[w].pc = "returned" => Check(waiter[w].check, waiter[w].result))
    /\ \A w \in Waiters :
          (Waiting(w) /\ SlotAccepted(w)) ~> (Ended(w) \/ ~SlotAccepted(w))

\* What the calls of http.py and the wire say.
Made_(k) == api[k].pc # "idle"
OnBucket(b) == {k \in ApiCalls : Made_(k) /\ rr[api[k].fn] = b}
Rank(k) == Cardinality({j \in OnBucket(rr[api[k].fn]) : j <= k})
FirstOn(b) == CHOOSE k \in OnBucket(b) : \A j \in OnBucket(b) : k <= j
InWindow(k) == api[k].start - api[FirstOn(rr[api[k].fn])].start < per(rr[api[k].fn])
SentIn(b, t) ==
    {i \in 1..Len(wire) : rr[wire[i].fn] = b /\ wire[i].at >= t /\ wire[i].at < t + per(b)}

\* C15: on a bucket no call was made on before, each of the first `calls`
\* invocations made within `per` seconds of the first completes at once,
\* without suspending, and the next invocation within that window suspends
\* and does not complete until at least `per` seconds later.
C15_FreshBucket ==
    \A b \in Buckets : \A k \in OnBucket(b) :
        InWindow(k) =>
            /\ Rank(k) <= calls(b)
                  => /\ api[k].pc = "sent"
                     /\ ~api[k].slept
                     /\ api[k].at = api[k].start
            /\ Rank(k) = calls(b) + 1
                  => /\ api[k].slept
                     /\ api[k].pc \in {"sleep", "sent"}
                     /\ api[k].pc = "sent" => api[k].at - api[k].start >= per(b)

\* C16: for every bucket and every window of `per` seconds, at most `calls`
\* requests of the bucket's functions were sent inside the window.
C16_AtMostCallsPerWindow ==
    \A b \in Buckets : \A t \in 1..MaxClock :
        Cardinality(SentIn(b, t)) <= calls(b)

\* C17: while a bucket's wait_end is set, a request of one of the bucket's
\* functions is sent only once the deadline has passed; a caller that found
\* the wait pending is not let through before.
C17_Step ==
    \A b \in Buckets :
        (/\ status[StatusOwner(b)].wait_end # 0
         /\ Len(wire') > Len(wire)
         /\ rr[wire'[Len(wire')].fn] = b)
           => now >= status[StatusOwner(b)].wait_end
C17_NoCallCompletesDuringWait == [][C17_Step]_vars

\* A caller found the wait pending, retried and was let through.
C17_Witness ==
    \E k \in ApiCalls :
        /\ api[k].pc = "sent"
        /\ api[k].behind = rr[api[k].fn]
        /\ api[k].at > api[k].start

\* C18: the counters a bucket reads count the calls made on that bucket
\* only, its wait_end is set only while one of its own callers sleeps, and
\* no caller waits behind the wait of another bucket.
C18_BucketsIndependent ==
    \A b \in Buckets :
        LET st == status[StatusOwner(b)]
        IN  /\ st.calls <= Cardinality(OnBucket(b))
            /\ st.first_call # 0 => OnBucket(b) # {}
            /\ st.wait_end # 0 => Sleeper = b
            /\ \A k \in OnBucket(b) : api[k].behind \in {NoBucket, b}

\* C19: every request on the wire was sent after a RateLimit call()
\* completed for it.
C19_EveryRequestGated ==
    \A i \in 1..Len(wire) : wire[i].gate

\* C20: the context written into the pending slots and passed to the
\* handlers of an event is the one decoded from that event, the handlers
\* are those registered on the event's channel, and a slot holds only a
\* context of its channel.
C20_ContextOfThatEvent ==
    /\ \A r \in Reqs : \A k \in 1..Len(trace[r]) :
          LET o == trace[r][k]
              name == Decode(req[r].payload[o.ev]).name
          IN  o.op \in {"fulfill", "start", "end"}
                 => /\ o.ctx = Ctx(r, o.ev)
                    /\ o.op = "start"
                          => \E x \in 1..Len(handlers[name]) : handlers[name][x] = o.h
    /\ \A n \in PredefinedNames : \A w \in DOMAIN pending[n] :
          pending[n][w] # NoneCtx => Decode(EventOf(pending[n][w])).name = n

\* The delivery has gone past event i (or stands in its dispatch).
Reached(r, i) ==
    /\ Accepted(r)
    /\ i \in 1..Len(req[r].payload)
    /\ \/ req[r].idx > i
       \/ req[r].idx = i /\ req[r].pc \in {"emit", "handler", "done"}
Ignored(ev) == ev.mode = "standby" /\ ignore_standby
\* No trace, cache entry, pending slot or waiter result comes from event i.
Untouched(r, i) ==
    /\ \A k \in 1..Len(trace[r]) : trace[r][k].ev # i
    /\ \A m \in DOMAIN MESSAGES : MESSAGES[m] # Ctx(r, i)
    /\ \A n \in DOMAIN pending : \A k \in DOMAIN pending[n] : pending[n][k] # Ctx(r, i)
    /\ \A w \in Waiters : waiter[w].result # Ctx(r, i)
\* Event i was decoded and dispatched: its context was cached (a message),
\* written to the slots of its channel and passed to the channel's handlers.
LikeActive(r, i) ==
    LET ev == req[r].payload[i] IN
    /\ Len(OpsAt(r, "decode", i)) = 1
    /\ OpsAt(r, "fulfill", i) = <<Op("fulfill", i, 0, Ctx(r, i))>>
    /\ ev.type = "message" => ev.id \in DOMAIN MESSAGES /\ MESSAGES[ev.id].i >= i
    /\ (req[r].idx > i \/ req[r].response = 200)
          => StartHandlers(r, i) = handlers[Decode(ev).name]

\* C21: with ignore_standby enabled a standby event is skipped silently:
\* it is not decoded (a malformed one raises nothing), not cached, writes
\* no pending slot and starts no handler, and the delivery goes on with the
\* next event, every other event being decoded and dispatched; with
\* ignore_standby disabled a standby event is decoded and dispatched like
\* an active one.
C21_StandbySkipped ==
    \A r \in Reqs : \A i \in 1..Len(req[r].payload) :
        LET ev == req[r].payload[i] IN
        IF Ignored(ev)
        THEN /\ Untouched(r, i)
             /\ req[r].idx = i => req[r].pc = "process"
        ELSE (Reached(r, i) /\ Decodable(ev)) => LikeActive(r, i)
\* A batch [standby, active text] was answered 200, in either configuration.
C21_Witness ==
    /\ ignore_standby
    /\ req[1].pc = "done" /\ req[1].response = 200
    /\ Len(req[1].payload) >= 2
    /\ req[1].payload[1].mode = "standby"
    /\ req[1].payload[2] = TextEvent("a")
    /\ Len(OpsAt(1, "start", 2)) = 1

\* The message events of delivery r with message id m that were decoded.
DecodedWithId(r, m) ==
    {i \in 1..Len(req[r].payload) :
        /\ req[r].payload[i].type = "message"
        /\ req[r].payload[i].id = m
        /\ Len(OpsAt(r, "decode", i)) > 0}
Latest(S) == CHOOSE i \in S : \A j \in S : j <= i

\* C22: once a message event was decoded, get_message(its message id)
\* returns the context of the most recent decoded event with that id, in
\* every state from then on: while the event's handlers run, after one of
\* them failed, and after the delivery ended; an id no decoded message
\* event carried has no entry, so contexts of non-message events and of
\* skipped standby events are never in the message cache.
C22_GetMessageReturnsLatest ==
    /\ \A m \in MessageIds :
          IF DecodedWithId(1, m) = {}
          THEN get_message(m).exc = "Unknown"
          ELSE get_message(m) = [exc |-> "", value |-> Ctx(1, Latest(DecodedWithId(1, m)))]
    /\ \A k \in DOMAIN MESSAGES :
          /\ k \in MessageIds
          /\ MESSAGES[k].r = 1
          /\ ~Ignored(EventOf(MESSAGES[k]))
          /\ EventOf(MESSAGES[k]).type = "message"
\* The handler of the second of two text messages with one id failed, after
\* a postback: the cache holds the second message's context.
C22_Witness ==
    /\ req[1].exc = "HandlerError"
    /\ Len(req[1].payload) = 3
    /\ req[1].payload[1] = TextEvent("a")
    /\ req[1].payload[2] = PostbackEvent
    /\ req[1].payload[3] = TextEvent("a")
    /\ req[1].idx = 3
    /\ get_message("m1").value = Ctx(1, 3)

\* Every entry of the three maps is still retrievable after the step.
EntriesKept ==
    /\ \A k \in DOMAIN USERS : get_user(k)'.exc = ""
    /\ \A k \in DOMAIN GROUPS : get_group(k)'.exc = ""
    /\ \A k \in DOMAIN MESSAGES : get_message(k)'.exc = ""
\* After the step every getter raises Unknown for every id.
AllUnknown ==
    /\ USERS' = EmptyMap /\ GROUPS' = EmptyMap /\ MESSAGES' = EmptyMap
    /\ \A id \in UserIds \cup {BotId} : get_user(id)'.exc = "Unknown"
    /\ \A id \in GroupIds : get_group(id)'.exc = "Unknown"
    /\ \A id \in MessageIds : get_message(id)'.exc = "Unknown"
IsLookup ==
    \/ \E id \in UserIds \cup {BotId} : GetUser(id)
    \/ \E id \in GroupIds : GetGroup(id)
    \/ \E id \in MessageIds : GetMessage(id)
C23_Step ==
    IF ClearCache
    THEN AllUnknown
    ELSE /\ EntriesKept
         /\ IsLookup => UNCHANGED <<USERS, GROUPS, MESSAGES>>

\* C23: a step of a delivery, of a lazy fetch, of wait_for or of a getter
\* keeps every user, group and message entry retrievable; only clear_cache
\* removes entries, and it empties all three maps, so that every getter
\* raises Unknown for every id until an entity is inserted again; a getter,
\* hit or miss, changes none of the maps.
C23_EntriesStayUntilCleared == [][C23_Step]_vars
\* clear_cache was called after a fetched user and the messages of a
\* finished delivery had been inserted: the getters raise Unknown.
C23_Witness ==
    /\ lookup.fn = "clear_cache"
    /\ lazy[1].pc = "returned" /\ lazy[1].kind = "author"
    /\ get_user("U1").exc = "Unknown"
    /\ req[1].pc = "done" /\ Len(OpsAt(1, "decode", 1)) = 1
    /\ get_message("m1").exc = "Unknown"
    /\ get_message("m2").exc = "Unknown"
    /\ waiter[1].pc = "returned"

\* The id a lazy call looks up, and the getter that reads its cache.
LazyId(q) == IF q.kind = "author" THEN source(q.ctx).userId ELSE source(q.ctx).groupId
Cached(q) == IF q.kind = "author" THEN get_user(LazyId(q)) ELSE get_group(LazyId(q))
C24_Step ==
    \A f \in LazyCalls :
        LET q == lazy'[f] IN
        \* the first call's request is answered: one request, the entity is
        \* memoized on the context and stored in the cache under its id
        /\ (lazy[f].pc = "await" /\ q.sent = 1)
              => /\ q.pc = "returned"
                 /\ memo'[q.ctx][q.kind] = q.result
                 /\ q.result.id = LazyId(q)
                 /\ Cached(lazy[f])' = [exc |-> "", value |-> q.result]
        \* a call is made
        /\ (lazy[f].pc = "idle" /\ q.pc # "idle")
              => IF q.kind = "group" /\ source(q.ctx).type # "group"
                 THEN /\ q.pc = "raised" /\ q.sent = 0
                      /\ UNCHANGED <<memo, USERS, GROUPS>>
                 ELSE q.after
                        => /\ q.pc = "returned" /\ q.sent = 0
                           /\ \E j \in LazyCalls :
                                 /\ j < f /\ lazy[j].ctx = q.ctx /\ lazy[j].kind = q.kind
                                 /\ lazy[j].pc = "returned" /\ lazy[j].result = q.result

\* C24: on one context, the first author() call whose request is answered
\* has sent exactly one request, memoizes the user on the context and
\* stores it in the user cache under its id; an author() call made after
\* such a call has ended returns the same user and sends no request; the
\* same for group() on a group context; group() on a context whose source
\* is not a group fails without a request and changes neither the memoized
\* value nor the cache.
C24_LazyFetchMemoized == [][C24_Step]_vars

\* Router h has run on the event of delivery 1: it returned, or raised.
Ran(h) ==
    \/ \E k \in 1..Len(trace[1]) : trace[1][k].op = "end" /\ trace[1][k].h = h
    \/ /\ req[1].pc = "done" /\ req[1].exc # ""
       /\ req[1].name \in DOMAIN handlers
       /\ req[1].hidx <= Len(handlers[req[1].name])
       /\ handlers[req[1].name][req[1].hidx] = h
CallsBy(h) == SelectSeq(invoked, LAMBDA c : c.h = h)
\* The event router h is made for, carrying the segments g.
EventFor(h, g) ==
    IF routers[h].kind = "command"
    THEN CommandEvent(routers[h].name, g)
    ELSE PostbackDataEvent(routers[h].name, g)
Coercible(types, g) ==
    /\ \A i \in 1..Len(types) : types[i] \in Supported
    /\ Len(g) >= Len(types)
    /\ \A i \in 1..Len(types) : coerce(types[i], g[i]).exc = ""
Coerced(types, g) == [i \in 1..Len(types) |-> coerce(types[i], g[i]).value]

\* C25: a command (and likewise a postback handler) with p positional
\* parameters and a final keyword-only str parameter, run on its name
\* followed by the segments a1;...;ap;r1;...;rk (k >= 1), calls the user
\* function once, with a1..ap coerced to the declared types and the
\* keyword-only argument equal to r1;...;rk, the remaining segments joined
\* by ';'.
C25_KeywordRestJoined ==
    \A h \in DOMAIN routers : \A g \in Segments :
        LET meta == routers[h].meta
            p == Len(meta.regular)
        IN  (/\ Ran(h)
             /\ meta.kw = "str"
             /\ Coercible(meta.regular, g)
             /\ Len(g) > p
             /\ req[1].payload = <<EventFor(h, g)>>)
            => CallsBy(h) =
                  <<Call(h, 1, 1, Coerced(meta.regular, g),
                         <<Value("str", join(Semicolon, SubSeq(g, p + 1, Len(g))))>>)>>

\* C26: a postback handler registered with prefix P is invoked only for
\* postback events whose data starts with "P;"; with handlers for two
\* different prefixes an event invokes at most the one whose prefix it
\* carries.
C26_PostbackPrefixMatched ==
    \A k \in 1..Len(invoked) :
        routers[invoked[k].h].kind = "postback"
           => startswith(req[invoked[k].r].payload[invoked[k].ev].text,
                         routers[invoked[k].h].name \o Semicolon)

\* The registration attempt a step makes, if it makes one.
Attempted == Len(attempts') = Len(attempts) + 1
LastAttempt == attempts'[Len(attempts')]
Registered(name) == \E k \in 1..Len(commands) : commands[k] = name
C27_Step ==
    (Attempted /\ LastAttempt.kind = "command")
       => IF Registered(LastAttempt.name)
          THEN /\ LastAttempt.exc = "ValueError"
               /\ UNCHANGED <<commands, handlers, routers>>
          ELSE LastAttempt.exc = ""
                 => /\ commands' = Append(commands, LastAttempt.name)
                    /\ Len(handlers'["text"]) = Len(handlers["text"]) + 1
                    /\ \A n \in DOMAIN handlers : n # "text" => handlers'[n] = handlers[n]
                    /\ DOMAIN handlers' = DOMAIN handlers

\* C27: command(name=N) with a name already registered on the client
\* raises an error at registration and leaves the command list and the
\* handler registry unchanged; with a name not yet used (and a function it
\* accepts) it adds the name and exactly one handler, to "text".
C27_DuplicateCommandRejected == [][C27_Step]_vars
\* A second registration of the same command name was rejected.
C27_Witness ==
    /\ Len(attempts) = 2
    /\ attempts[1].kind = "command" /\ attempts[1].name = <<"n">> /\ attempts[1].exc = ""
    /\ attempts[2].kind = "command" /\ attempts[2].name = <<"n">>
    /\ attempts[2].func.coro /\ attempts[2].exc = "ValueError"
    /\ commands = <<<<"n">>>>
    /\ handlers["text"] = <<1>>

AllSupported(meta) ==
    /\ \A i \in 1..Len(meta.regular) : meta.regular[i] \in Supported
    /\ meta.kw = NoType \/ meta.kw \in Supported
\* A registration of a function that is not a coroutine function raises
\* and registers nothing.
C28_NotCoroutineRejected ==
    (Attempted /\ ~LastAttempt.func.coro)
       => /\ LastAttempt.exc # ""
          /\ UNCHANGED <<commands, handlers, routers>>
\* After the step, no router has called a function that declares a
\* parameter of an unsupported type.
C28_UnsupportedNeverInvoked ==
    \A k \in 1..Len(invoked') : AllSupported(routers'[invoked'[k].h].meta)

\* C28: command() and postback() reject a function that is not a coroutine
\* function with an error at registration, leaving handler registry and
\* command list unchanged; and a user function that declares a positional
\* or keyword-only parameter of a type outside {str, int, float, bool} is
\* never invoked by its router.
C28_InvalidHandlersRejected ==
    [][C28_NotCoroutineRejected /\ C28_UnsupportedNeverInvoked]_vars

\* C29: for a postback handler registered with postback(name) that declares
\* k >= 0 str parameters, an event whose data is postback_data(name, x1,
\* ..., xk) makes the router call the handler exactly once, with the
\* context followed by x1, ..., xk.
C29_PostbackDataRoundTrip ==
    \A h \in DOMAIN routers : \A g \in Segments :
        LET meta == routers[h].meta IN
        (/\ Ran(h)
         /\ routers[h].kind = "postback"
         /\ meta.kw = NoType
         /\ \A i \in 1..Len(meta.regular) : meta.regular[i] = "str"
         /\ Len(g) = Len(meta.regular)
         /\ req[1].payload = <<PostbackDataEvent(routers[h].name, g)>>)
        => CallsBy(h) = <<Call(h, 1, 1, [i \in 1..Len(g) |-> Value("str", g[i])], <<>>)>>

SourcePath(cls, a) ==
    CASE a = "members" ->
            IF cls = "MemberLeaveContext" THEN "left.members" ELSE "joined.members"
      [] a = "package_id" -> "message.packageId"
      [] a = "keywords" -> "message.keywords"
      [] a = "text" -> "message.text"
      [] a = "data" -> "postback.data"
      [] a = "datetime" -> "postback.params.datetime"
      [] a = "newRichMenuAliasId" -> "postback.params.newRichMenuAliasId"
      [] a = "result" -> "link.result"
      [] a = "nounce" -> "link.nonce"
\* C31: constructing the context of a well-formed event succeeds, and every
\* property read off it returns the event's field it stands for, None when
\* the field is absent; neither fails.
C31_AccessorsReturnSourceFields ==
    /\ built.cls # "" => built.exc = ""
    /\ got.name # ""
          => /\ got.exc = ""
             /\ got.value = get(built.data, SourcePath(built.cls, got.name)).value

\* base64(HMAC-SHA256(key = secret, message = body)) of the reference
\* implementation, as the header string a sender would put on the wire.
ReferenceSignature(secret, body) == [key |-> secret, body |-> body, present |-> TRUE]
C33_SuspendedUntilDeadline ==
    \A k \in ApiCalls :
        /\ api[k].pc # "raised"
        /\ (api[k].pc = "retry" /\ status[StatusOwner(rr[api[k].fn])].wait_end # 0)
              => api[k].wake >= status[StatusOwner(rr[api[k].fn])].wait_end

\* The position of the first operation `op` for event i in delivery r's
\* trace, or past its end when there is none.
FirstOp(r, op, i) ==
    IF \E k \in 1..Len(trace[r]) : trace[r][k].op = op /\ trace[r][k].ev = i
    THEN CHOOSE k \in 1..Len(trace[r]) :
            /\ trace[r][k].op = op /\ trace[r][k].ev = i
            /\ \A j \in 1..(k - 1) : ~(trace[r][j].op = op /\ trace[r][j].ev = i)
    ELSE Len(trace[r]) + 1
\* C34: the pending slots of an event's channel are written before its
\* first handler starts; while the event's handlers run, a wait_for that
\* was registered before the event holds the event's context in its slot,
\* and one registered since (by a handler of the event) holds None.
C34_SlotsWrittenBeforeHandlers ==
    \A r \in Reqs :
        /\ \A i \in 1..Len(req[r].payload) :
              FirstOp(r, "start", i) <= Len(trace[r])
                 => FirstOp(r, "fulfill", i) < FirstOp(r, "start", i)
        /\ req[r].pc \in {"emit", "handler"}
              => \A w \in DOMAIN pending[req[r].name] :
                    IF Ctx(r, req[r].idx) \in waiter[w].before
                    THEN pending[req[r].name][w] = NoneCtx
                    ELSE pending[req[r].name][w] = Ctx(r, req[r].idx)

C35_Step ==
    /\ \A n \in DOMAIN handlers :
          n \in DOMAIN handlers' /\ IsPrefix(handlers[n], handlers'[n])
    /\ (req' # req \/ trace' # trace \/ waiter' # waiter \/ pending' # pending)
          => handlers' = handlers
    /\ handlers' # handlers
          => \E n \in DOMAIN handlers' :
                /\ Len(handlers'[n]) = (IF n \in DOMAIN handlers THEN Len(handlers[n]) ELSE 0) + 1
                /\ \A m \in DOMAIN handlers' \ {n} : m \in DOMAIN handlers /\ handlers'[m] = handlers[m]
\* C35: the handler registry only grows at the end: every step leaves each
\* channel's list a prefix of the new one, a step of emit, process or
\* wait_for leaves the registry as it was, and a registration (event,
\* listen, command, postback) appends one handler to one channel.
C35_RegistryAppendOnly == [][C35_Step]_vars
\* Three registrations of different kinds were made, one on a channel of the
\* user's own, and a delivery was dispatched to the two handlers of "text".
C35_Witness ==
    /\ "custom" \in DOMAIN handlers /\ Len(handlers["custom"]) = 1
    /\ Len(handlers["text"]) = 2
    /\ \E h \in DOMAIN routers : routers[h].kind = "command"
    /\ req[1].pc = "done" /\ req[1].name = "text"
    /\ Len(OpsAt(1, "start", 1)) = 2

\* C39: every channel that has a handler list has a pending map too, also
\* after event() or listen() created a channel of the user's own, so a
\* wait_for on any channel of the registry registers its request.
C39_EveryChannelHasPendingMap ==
    /\ DOMAIN handlers \subseteq DOMAIN pending
    /\ \A w \in Waiters :
          waiter[w].name \in DOMAIN handlers => waiter[w].pc # "KeyError"

\* The handlers started so far for event i of delivery r.
StartedFor(r, i) == {OpsAt(r, "start", i)[k].h : k \in 1..Len(OpsAt(r, "start", i))}
C36_Step ==
    \A r \in Reqs :
        /\ (req[r].pc = "emit" /\ req'[r].pc = "process")
              => \A k \in 1..Len(handlers[req[r].name]) :
                    via.reg[handlers[req[r].name][k]] # via.req[r]
                       => handlers[req[r].name][k] \in StartedFor(r, req[r].idx)
        /\ req[r].pc \in {"emit", "handler"}
              => \A w \in DOMAIN pending[req[r].name] :
                    (via.wait[w] # via.req[r] /\ req[r].context[1] \notin waiter[w].before)
                       => pending[req[r].name][w] = req[r].context[1]
\* C36: handlers and pending are maps of the class, shared by the Client
\* instances: when the dispatch of an event through one instance ends,
\* every handler registered on its channel through another instance has
\* been started for it, and while it is dispatched the slot of a wait_for
\* issued on another instance before it holds its context.
C36_RegistrySharedByInstances == [][C36_Step]_vars
\* A delivery through instance 1 ran a handler registered through instance
\* 2, and the wait_for called on instance 2 returned its context.
C36_Witness ==
    /\ via.req[1] = 1 /\ via.reg[1] = 2 /\ via.wait[1] = 2
    /\ req[1].pc = "done" /\ req[1].response = 200
    /\ 1 \in StartedFor(1, 1)
    /\ waiter[1].pc = "returned" /\ waiter[1].result = Ctx(1, 1)
    /\ Ctx(1, 1) \notin waiter[1].before

\* The bucket's counter is past its limit with the window since first_call
\* over, and nobody waits.
PastWindow(b, st) ==
    /\ st.first_call # 0 /\ st.wait_end = 0
    /\ now - st.first_call >= per(b)
C37_Step ==
    \A b \in Buckets :
        LET st == status[StatusOwner(b)] IN
        /\ \A k \in ApiCalls :
              (/\ api[k].pc \in {"idle", "retry"} /\ api'[k] # api[k]
               /\ rr[api'[k].fn] = b
               /\ PastWindow(b, st) /\ st.calls + 1 > calls(b))
                 => /\ api'[k].pc = "sent"
                    /\ status'[StatusOwner(b)] = [st EXCEPT !.calls = @ + 1]
        /\ (PastWindow(b, st) /\ st.calls > calls(b))
              => /\ status'[StatusOwner(b)].first_call = st.first_call
                 /\ status'[StatusOwner(b)].wait_end = 0
                 /\ status'[StatusOwner(b)].calls >= st.calls
\* C37: a call() that takes the counter past the limit when the window
\* since first_call is already over is let through at once and leaves
\* first_call, so the bucket is not reset; from then on the bucket stays
\* that way: first_call keeps its value, nobody waits and the counter only
\* grows.
C37_NoResetAfterWindow == [][C37_Step]_vars

\* Operation k of delivery r wrote, into the slots of w's channel and after
\* w registered, a context that w's check accepts.
Matching(w, r, k) ==
    /\ trace[r][k].op = "fulfill"
    /\ Decode(req[r].payload[trace[r][k].ev]).name = waiter[w].name
    /\ trace[r][k].ctx \notin waiter[w].before
    /\ Check(waiter[w].check, trace[r][k].ctx)
\* C38: a wait_for call returns the first context dispatched on its channel
\* after its registration that its check accepts, whatever is dispatched on
\* the channel before it reads its slot again; it is never left on a later
\* context its check rejects once a matching one was dispatched.
C38_NoMatchingEventLost ==
    \A w \in Waiters :
        /\ waiter[w].pc = "returned"
              => \A k \in 1..Len(trace[waiter[w].result.r]) :
                    Matching(w, waiter[w].result.r, k)
                       => \E j \in 1..k :
                             /\ trace[waiter[w].result.r][j].op = "fulfill"
                             /\ trace[waiter[w].result.r][j].ctx = waiter[w].result
        /\ waiter[w].pc = "spin"
              => \A r \in Reqs : \A k \in 1..Len(trace[r]) : ~Matching(w, r, k)

\* A reply request was handed to the HTTP client for context c.
Requested(c) == \E k \in 1..Len(outbox) : outbox[k].c = c
C40_Step ==
    /\ \A c \in RCtxs :
          /\ rctx[c].replied <=> Requested(c)
          /\ rctx'[c].replied <=> Requested(c)'
          /\ rctx[c].replied => rctx'[c].replied
    /\ \A k \in ReplyCalls :
          (call[k].pc = "idle" /\ call'[k].pc = "raised")
             => rctx' = rctx /\ outbox' = outbox
\* C40: the replied flag of a context is false until a reply request is
\* issued for it and true from then on: it is never set back, it is true
\* exactly when a request for the context was issued, and a reply() call
\* that raises (no token, window over, already replied, a message that
\* cannot be converted) leaves the flag and sends nothing.
C40_RepliedWriteOnce == [][C40_Step]_vars
\* One context was replied to and a second reply() on it raised; a reply()
\* on the context without token raised and left its flag False.
C40_Witness ==
    /\ rctx[1].reply_token /\ ~rctx[2].reply_token
    /\ rctx[1].replied /\ ~rctx[2].replied
    /\ call[1].c = 1 /\ call[1].pc = "returned"
    /\ call[2].c = 1 /\ call[2].pc = "raised" /\ call[2].exc = "CannotReply"
    /\ call[3].c = 2 /\ call[3].pc = "raised" /\ call[3].exc = "TypeError"
    /\ Len(outbox) = 1

====
